---- MODULE Spec2Model ----
(***************************************************************************)
(* Model of the Lexorbit legal-research backend: the record store          *)
(* (court_data/models.py), the hybrid search of api/ai_services.py, the    *)
(* judge analytics of api/ai_services.py and api/views.py, and the         *)
(* citation network of api/views.py.                                       *)
(*                                                                         *)
(* Strings are finite sequences of one-character strings so that the       *)
(* substring tests of the code (icontains / ILIKE) are computed, not       *)
(* assumed.  Python None and SQL NULL are the value None.                  *)
(***************************************************************************)
EXTENDS Integers, Sequences, FiniteSets, TLC

VARIABLES
    apiKey,         \* settings.OPENAI_API_KEY
    citationLimit,  \* DEFAULT_CITATION_LIMIT of api/views.py
    influentialLimit, \* DEFAULT_INFLUENTIAL_CASES_LIMIT of api/views.py
    courts,         \* Court rows, by id
    judges,         \* Judge rows, by id
    dockets,        \* Docket rows, by id
    clusters,       \* OpinionCluster rows, by id
    opinions,       \* Opinion rows, by id
    relations,      \* JudgeDocketRelation rows
    caseOutcomes,   \* CaseOutcome rows, by docket id
    citations,      \* OpinionsCited rows
    search,         \* the last call of the embedding / search service and its outcome
    analytics,      \* the last call of the judge / case analytics and its outcome
    network,        \* the last call of the citation network view and its outcome
    ingest          \* the last call of the ingestion (data_processors) and its outcome

configVars == <<apiKey, citationLimit, influentialLimit>>

storeVars ==
    <<courts, judges, dockets, clusters, opinions, relations, caseOutcomes, citations>>

callVars == <<search, analytics, network, ingest>>

vars == <<configVars, storeVars, callVars>>

\* Python None / SQL NULL of a number-valued field (ids, dates and vectors start at 1)
None == 0

-----------------------------------------------------------------------------
(* Bounds of the model *)

MaxOpinions == 2

MaxResults == 2

-----------------------------------------------------------------------------
(* Text *)

\* str.lower() / the case folding of ILIKE, on one character
Lower(c) ==
    CASE c = "A" -> "a"
      [] c = "B" -> "b"
      [] c = "C" -> "c"
      [] c = "D" -> "d"
      [] c = "E" -> "e"
      [] c = "F" -> "f"
      [] c = "G" -> "g"
      [] c = "H" -> "h"
      [] c = "I" -> "i"
      [] c = "J" -> "j"
      [] c = "K" -> "k"
      [] c = "L" -> "l"
      [] c = "M" -> "m"
      [] c = "N" -> "n"
      [] c = "O" -> "o"
      [] c = "P" -> "p"
      [] c = "Q" -> "q"
      [] c = "R" -> "r"
      [] c = "S" -> "s"
      [] c = "T" -> "t"
      [] c = "U" -> "u"
      [] c = "V" -> "v"
      [] c = "W" -> "w"
      [] c = "X" -> "x"
      [] c = "Y" -> "y"
      [] c = "Z" -> "z"
      [] OTHER -> c

\* SQL ILIKE '%q%' / Django icontains: q occurs in text, ignoring case.
icontains(text, q) ==
    \E i \in 1..(Len(text) - Len(q) + 1) :
        \A k \in 1..Len(q) : Lower(text[i + k - 1]) = Lower(q[k])

Min(a, b) == IF a <= b THEN a ELSE b

Max(a, b) == IF a >= b THEN a ELSE b

\* Python s[:n]
Prefix(s, n) == SubSeq(s, 1, Min(Len(s), n))

\* The orderings of the finite set S
Orderings(S) ==
    {s \in [1..Cardinality(S) -> S] : \A i, j \in DOMAIN s : i # j => s[i] # s[j]}

-----------------------------------------------------------------------------
(* EmbeddingProvider *)

PLACEHOLDER_KEY == "your-openai-api-key-here"

ApiKeys == {"", PLACEHOLDER_KEY, "sk-live"}

\* What the single remote call embeddings.create can do
RemoteOutcomes == {"ok", "network_error", "quota_error", "malformed_response"}

\* One-dimensional stand-ins for embedding vectors
Vectors == {1, 2}

\* EmbeddingService.__init__: the client exists only for a real credential
client_of(key) == key # "" /\ key # PLACEHOLDER_KEY

\* client.embeddings.create(...): the one remote call; it either answers with a
\* vector or raises (network error, quota, malformed response)
embeddings_create(remote, vec) ==
    [raised |-> remote # "ok", value |-> IF remote = "ok" THEN vec ELSE None]

\* EmbeddingService.generate_embedding, as [value, attempts, raised]
generate_embedding_uncaught(key, remote, vec) ==
    IF ~client_of(key)
    THEN [value |-> None, attempts |-> 0, raised |-> FALSE]
    ELSE LET r == embeddings_create(remote, vec)
         IN  [value |-> r.value, attempts |-> 1, raised |-> r.raised]

generate_embedding(key, remote, vec) ==
    IF ~client_of(key)
    THEN [value |-> None, attempts |-> 0, raised |-> FALSE]
    ELSE LET r == embeddings_create(remote, vec)
         IN  IF r.raised
             THEN [value |-> None, attempts |-> 1, raised |-> FALSE]
             ELSE [value |-> r.value, attempts |-> 1, raised |-> FALSE]

\* data_processors.generate_embedding: the module-level twin used by ingestion
ingest_generate_embedding(openaiAvailable, key, remote, vec) ==
    IF ~openaiAvailable
    THEN [value |-> None, attempts |-> 0, raised |-> FALSE]
    ELSE IF key = "" \/ key = PLACEHOLDER_KEY
         THEN [value |-> None, attempts |-> 0, raised |-> FALSE]
         ELSE LET r == embeddings_create(remote, vec)
              IN  IF r.raised
                  THEN [value |-> None, attempts |-> 1, raised |-> FALSE]
                  ELSE [value |-> r.value, attempts |-> 1, raised |-> FALSE]

-----------------------------------------------------------------------------
(* RecordStore: sample rows *)

SupremeCourtPattern == <<"S","u","p","r","e","m","e"," ","C","o","u","r","t">>

\* Court rows (court_data/models.py Court): court 1 is a supreme court by its
\* court_id, court 2 by its name, court 3 is a federal district court.
CourtSamples ==
    [c \in {1, 2, 3} |->
        CASE c = 1 -> [court_id |-> "scotus", name |-> <<"U","S">>,
                       jurisdiction |-> "F", position |-> "Supreme"]
          [] c = 2 -> [court_id |-> "ohio",
                       name |-> <<"O","h","i","o"," ","s","u","p","r","e","m","e",
                                  " ","c","o","u","r","t">>,
                       jurisdiction |-> "S", position |-> "Appellate"]
          [] c = 3 -> [court_id |-> "nysd", name |-> <<"S","D","N","Y">>,
                       jurisdiction |-> "F", position |-> "District"]]

\* Judge rows: full_name, biography
JudgeSamples ==
    [j \in {1, 2} |->
        IF j = 1 THEN [full_name |-> <<"K","a","y">>, biography |-> << >>]
        ELSE [full_name |-> <<"L","e","e">>, biography |-> <<"t","a","x">>]]

\* Docket rows, one per court: the names, the nature of suit, and the
\* decision_days that process_docket stores (days from filing to termination,
\* None while either date is unknown)
DocketSamples ==
    [d \in {1, 2, 3} |->
        CASE d = 1 -> [court |-> 1,
                       case_name |-> <<"a","B"," ","t","o","r","t">>,
                       case_name_short |-> <<"a","B">>,
                       nature_of_suit |-> <<"C","o","n","t","r","a","c","t">>,
                       decision_days |-> 30]
          [] d = 2 -> [court |-> 2,
                       case_name |-> <<"a">>,
                       case_name_short |-> <<"a">>,
                       nature_of_suit |-> <<"E","m","p","l","o","y","m","e","n","t">>,
                       decision_days |-> 120]
          [] d = 3 -> [court |-> 3,
                       case_name |-> <<"a">>,
                       case_name_short |-> <<"a">>,
                       nature_of_suit |-> << >>,
                       decision_days |-> None]]

\* OpinionCluster rows: one per docket
ClusterSamples == [c \in {1, 2, 3} |-> [docket |-> c]]

\* Opinion rows (court_data/models.py Opinion)
OpinionRow(c, a, t, d, e) ==
    [cluster |-> c, author |-> a, plain_text |-> t, date_filed |-> d, embedding |-> e]

\* The rows an opinion is drawn from: a sample of
\* clusters x authors x texts x dates x embeddings in which every pair of field
\* values occurs together
OpinionRows ==
    {OpinionRow(1, None, << >>,       1, None),
     OpinionRow(1, 1,    <<"b","c">>, 2, 2),
     OpinionRow(1, 1,    << >>,       1, 1),
     OpinionRow(2, None, << >>,       2, 1),
     OpinionRow(2, 1,    <<"b","c">>, 1, None),
     OpinionRow(2, 1,    <<"b","c">>, 1, 2),
     OpinionRow(3, None, <<"b","c">>, 2, None),
     OpinionRow(3, None, << >>,       1, 2),
     OpinionRow(3, 1,    <<"b","c">>, 1, 1)}

-----------------------------------------------------------------------------
(* HybridSearchEngine: api/ai_services.py EmbeddingService *)

Queries == {<< >>, <<"B">>}

NoFilters ==
    [jurisdiction |-> "", court_level |-> "", date_from |-> None,
     date_to |-> None, judge_name |-> << >>]

Filters(j, l, df, dt, jn) ==
    [jurisdiction |-> j, court_level |-> l, date_from |-> df, date_to |-> dt,
     judge_name |-> jn]

\* The filter dictionaries of the requests: none, each key alone with each of
\* its values, the pair of verify_research.py, and two with every key set
FilterSets ==
    {NoFilters,
     Filters("federal", "", None, None, << >>),
     Filters("state", "", None, None, << >>),
     Filters("", "supreme", None, None, << >>),
     Filters("", "circuit", None, None, << >>),
     Filters("", "district", None, None, << >>),
     Filters("", "", 1, None, << >>),
     Filters("", "", 2, None, << >>),
     Filters("", "", None, 1, << >>),
     Filters("", "", None, 2, << >>),
     Filters("", "", None, None, <<"k","a">>),
     Filters("federal", "supreme", None, None, << >>),
     Filters("federal", "supreme", 1, 2, <<"k","a">>),
     Filters("state", "circuit", 1, 1, <<"k","a">>)}

docket_of(op) == dockets[clusters[op.cluster].docket]

court_of(op) == courts[docket_of(op).court]

\* <=> of pgvector on the stand-in vectors
distance(a, b) == IF a >= b THEN a - b ELSE b - a

\* The filter predicates of _vector_search_opinions (where_clauses after the first)
where_clauses(op, filters) ==
    /\ filters.jurisdiction = "federal" => court_of(op).jurisdiction = "F"
    /\ filters.jurisdiction = "state" => court_of(op).jurisdiction = "S"
    /\ filters.court_level = "supreme" =>
           \/ court_of(op).court_id = "scotus"
           \/ icontains(court_of(op).name, SupremeCourtPattern)
    /\ filters.court_level = "circuit" => court_of(op).position = "Appellate"
    /\ filters.court_level = "district" => court_of(op).position = "District"
    /\ filters.date_from # None => op.date_filed >= filters.date_from
    /\ filters.date_to # None => op.date_filed <= filters.date_to
    /\ filters.judge_name # << >> =>
           /\ op.author # None
           /\ icontains(judges[op.author].full_name, filters.judge_name)

\* The WHERE clause of the nearest-neighbour query
vector_where(op, filters) ==
    /\ op.embedding # None
    /\ where_clauses(op, filters)

\* The id lists the query "ORDER BY distance LIMIT max_results" may return:
\* any ordering of the matching rows by non-decreasing distance, cut to the limit
vector_rows(qvec, filters, max_results) ==
    LET M == {i \in DOMAIN opinions : vector_where(opinions[i], filters)}
    IN  {Prefix(s, max_results) :
            s \in {t \in Orderings(M) :
                     \A i, j \in DOMAIN t :
                         i < j => distance(opinions[t[i]].embedding, qvec)
                                    <= distance(opinions[t[j]].embedding, qvec)}}

Range(s) == {s[i] : i \in DOMAIN s}

\* "Re-sort to maintain distance order": fetched is the order in which
\* Opinion.objects.filter(id__in=opinion_ids) returned the rows
resort_as_fetched(opinion_ids, fetched) == fetched

resort(opinion_ids, fetched) ==
    SelectSeq(opinion_ids, LAMBDA id : id \in Range(fetched))

\* Opinion.Meta.ordering = ['-date_filed']; rows of one date keep id order
default_before(i, j) ==
    \/ opinions[i].date_filed > opinions[j].date_filed
    \/ opinions[i].date_filed = opinions[j].date_filed /\ i < j

default_order(S) ==
    CHOOSE s \in Orderings(S) : \A i, j \in DOMAIN s : i < j => default_before(s[i], s[j])

\* The filter of _keyword_search_opinions
keyword_where(op, query, filters) ==
    /\ query # << >> =>
           \/ icontains(op.plain_text, query)
           \/ icontains(docket_of(op).case_name, query)
    /\ filters.jurisdiction = "federal" => court_of(op).jurisdiction = "F"
    /\ filters.jurisdiction = "state" => court_of(op).jurisdiction = "S"

keyword_search_opinions(query, filters, max_results) ==
    Prefix(default_order({i \in DOMAIN opinions :
                             keyword_where(opinions[i], query, filters)}),
           max_results)

ExcerptLen == 500

Unknown == <<"U","n","k","n","o","w","n">>

\* _format_opinion_results
format_opinion_results(ids) ==
    [k \in DOMAIN ids |->
        LET op == opinions[ids[k]]
        IN  [type |-> "opinion",
             id |-> ids[k],
             title |-> docket_of(op).case_name_short,
             author |-> IF op.author # None THEN judges[op.author].full_name
                        ELSE Unknown,
             date |-> op.date_filed,
             court |-> court_of(op).name,
             excerpt |-> IF op.plain_text # << >>
                         THEN Prefix(op.plain_text, ExcerptLen) \o <<"...">>
                         ELSE << >>]]

\* _vector_search_opinions: [raised, value]; the cursor error is logged and raised again
vector_search_opinions(sqlFails, rows, fetched) ==
    IF sqlFails
    THEN [raised |-> TRUE, value |-> << >>]
    ELSE [raised |-> FALSE, value |-> resort(rows, fetched)]

\* semantic_search_opinions after generate_embedding answered e
search_opinions_nofilters(e, query, filters, max_results, sqlFails, rows, fetched) ==
    IF e.raised
    THEN [status |-> "raised", mode |-> "none", result |-> << >>]
    ELSE IF e.value # None
         THEN LET v == vector_search_opinions(sqlFails, rows, fetched)
              IN  IF v.raised
                  THEN [status |-> "raised", mode |-> "vector", result |-> << >>]
                  ELSE [status |-> "returned", mode |-> "vector",
                        result |-> format_opinion_results(v.value)]
         ELSE [status |-> "returned", mode |-> "keyword",
               result |-> format_opinion_results(
                              keyword_search_opinions(query, NoFilters, max_results))]

search_opinions(e, query, filters, max_results, sqlFails, rows, fetched) ==
    IF e.raised
    THEN [status |-> "raised", mode |-> "none", result |-> << >>]
    ELSE IF e.value # None
         THEN LET v == vector_search_opinions(sqlFails, rows, fetched)
              IN  IF v.raised
                  THEN [status |-> "raised", mode |-> "vector", result |-> << >>]
                  ELSE [status |-> "returned", mode |-> "vector",
                        result |-> format_opinion_results(v.value)]
         ELSE [status |-> "returned", mode |-> "keyword",
               result |-> format_opinion_results(
                              keyword_search_opinions(query, filters, max_results))]

NoCall ==
    [op |-> "none", query |-> << >>, filters |-> NoFilters, max_results |-> 0,
     embedding |-> None, attempts |-> 0, remote |-> "", sql_failed |-> FALSE,
     rows |-> << >>, fetched |-> << >>, status |-> "none", mode |-> "none",
     result |-> << >>]

\* What the environment does during one call: the remote answer, the vector
\* it carries, and whether the distance query fails.  Only the choices the call
\* can observe are distinguished.
Environments ==
    IF client_of(apiKey)
    THEN {[remote |-> "ok", vec |-> v, sqlFails |-> b] : v \in Vectors, b \in BOOLEAN}
         \cup {[remote |-> r, vec |-> None, sqlFails |-> FALSE] :
                  r \in RemoteOutcomes \ {"ok"}}
    ELSE {[remote |-> "", vec |-> None, sqlFails |-> FALSE]}

SemanticSearchOpinions ==
    /\ search.op = "none"
    /\ \E query \in Queries, filters \in FilterSets, max_results \in 1..MaxResults,
          env \in Environments :
          LET e == generate_embedding(apiKey, env.remote, env.vec)
              vector == ~e.raised /\ e.value # None
          IN  \E rows \in (IF vector /\ ~env.sqlFails
                           THEN vector_rows(e.value, filters, max_results)
                           ELSE {<< >>}) :
              \E fetched \in Orderings(Range(rows)) :
                  LET r == search_opinions(e, query, filters, max_results,
                                           env.sqlFails, rows, fetched)
                  IN  search' =
                          [op |-> "semantic_search_opinions", query |-> query,
                           filters |-> filters, max_results |-> max_results,
                           embedding |-> e.value, attempts |-> e.attempts,
                           remote |-> env.remote,
                           sql_failed |-> vector /\ env.sqlFails,
                           rows |-> rows, fetched |-> fetched, status |-> r.status,
                           mode |-> r.mode, result |-> r.result]
    /\ UNCHANGED <<configVars, storeVars, analytics, network, ingest>>

\* A direct call of EmbeddingService.generate_embedding
GenerateEmbedding ==
    /\ search.op = "none"
    /\ \E env \in Environments :
          LET e == generate_embedding(apiKey, env.remote, env.vec)
          IN  search' = [NoCall EXCEPT !.op = "generate_embedding",
                                        !.embedding = e.value,
                                        !.attempts = e.attempts,
                                        !.remote = env.remote,
                                        !.status = IF e.raised THEN "raised"
                                                   ELSE "returned"]
    /\ UNCHANGED <<configVars, storeVars, analytics, network, ingest>>

\* A call of data_processors.generate_embedding; OPENAI_AVAILABLE is whether the
\* openai package could be imported
IngestGenerateEmbedding ==
    /\ search.op = "none"
    /\ \E openaiAvailable \in BOOLEAN, env \in Environments :
          LET e == ingest_generate_embedding(openaiAvailable, apiKey, env.remote, env.vec)
          IN  search' = [NoCall EXCEPT !.op = "ingest_generate_embedding",
                                        !.embedding = e.value,
                                        !.attempts = e.attempts,
                                        !.remote = IF e.attempts > 0 THEN env.remote
                                                   ELSE "",
                                        !.status = IF e.raised THEN "raised"
                                                   ELSE "returned"]
    /\ UNCHANGED <<configVars, storeVars, analytics, network, ingest>>

\* The handler has answered; the service keeps nothing of the call
Respond ==
    /\ search.op # "none"
    /\ search' = NoCall
    /\ UNCHANGED <<configVars, storeVars, analytics, network, ingest>>

-----------------------------------------------------------------------------
(* Judge and case analytics: api/ai_services.py JudgeAnalyticsService and
   CaseAnalysisService, api/serializers.py JudgeListSerializer, api/views.py
   JudgeViewSet.  Percentages and day counts that the code rounds to one
   decimal are kept in tenths: 625 is 62.5 *)

MaxRelations == 8

\* JudgeDocketRelation.ROLE_CHOICES, and the blank role
RoleSamples == <<"author", "joined", "dissent", "concurrence", "presiding", "panel", "">>

Granted == <<"G","r","a","n","t","e","d">>

Denied == <<"D","e","n","i","e","d">>

\* The outcome labels of the sample relations; the last is the blank outcome
OutcomeSamples == <<Granted, Denied, << >>>>

\* round(num / den, 1) in tenths: the nearest tenth, a tie going to the even one
round1(num, den) ==
    LET q == (10 * num) \div den
        r == (10 * num) % den
    IN  IF 2 * r < den THEN q
        ELSE IF 2 * r > den THEN q + 1
        ELSE IF q % 2 = 0 THEN q ELSE q + 1

\* sum of f over the finite set S
RECURSIVE Sum(_, _)
Sum(f, S) ==
    IF S = {} THEN 0
    ELSE LET x == CHOOSE y \in S : TRUE IN f[x] + Sum(f, S \ {x})

\* judge.docket_relations
docket_relations(j) == {r \in relations : r.judge = j}

\* .exclude(outcome='')
exclude_blank_outcome(rs) == {r \in rs : r.outcome # << >>}

\* .filter(outcome__icontains='grant')
filter_outcome_grant(rs) == {r \in rs : icontains(r.outcome, <<"g","r","a","n","t">>)}

\* .filter(docket__nature_of_suit__icontains=case_type)
filter_nature_of_suit(rs, case_type) ==
    {r \in rs : icontains(dockets[r.docket].nature_of_suit, case_type)}

\* Avg('docket__decision_days') over the relations whose docket has one, rounded
\* to one decimal, in tenths; default is returned for no value and for zero
avg_decision_time(rs, default) ==
    LET known == {r \in rs : dockets[r.docket].decision_days # None}
        days  == [r \in known |-> dockets[r.docket].decision_days]
    IN  IF known = {} \/ Sum(days, known) = 0 THEN default
        ELSE round1(Sum(days, known), Cardinality(known))

LIST_DEFAULT_GRANT_RATE == 700

PROFILE_DEFAULT_GRANT_RATE == 780

SERIALIZER_DEFAULT_GRANT_RATE == 500

DEFAULT_AVG_DAYS == 450

\* get_judge_list with granted and total exchanged in the division
judge_list_grant_rate_inverted(j) ==
    LET total   == Cardinality(exclude_blank_outcome(docket_relations(j)))
        granted == Cardinality(filter_outcome_grant(docket_relations(j)))
    IN  IF total > 0 /\ granted > 0 THEN round1(total * 100, granted)
        ELSE LIST_DEFAULT_GRANT_RATE

\* get_judge_list: grant_rate of one judge
judge_list_grant_rate(j) ==
    LET total   == Cardinality(exclude_blank_outcome(docket_relations(j)))
        granted == Cardinality(filter_outcome_grant(docket_relations(j)))
    IN  IF total > 0 THEN round1(granted * 100, total)
        ELSE LIST_DEFAULT_GRANT_RATE

\* get_judge_profile with the rate cut to one decimal instead of rounded
judge_profile_grant_rate_truncated(j) ==
    LET relations_with_outcome == exclude_blank_outcome(docket_relations(j))
        granted == Cardinality(filter_outcome_grant(relations_with_outcome))
    IN  IF Cardinality(relations_with_outcome) > 0
        THEN (granted * 1000) \div Cardinality(relations_with_outcome)
        ELSE PROFILE_DEFAULT_GRANT_RATE

\* get_judge_profile: analytics.grant_rate
judge_profile_grant_rate(j) ==
    LET relations_with_outcome == exclude_blank_outcome(docket_relations(j))
        granted == Cardinality(filter_outcome_grant(relations_with_outcome))
    IN  IF Cardinality(relations_with_outcome) > 0
        THEN round1(granted * 100, Cardinality(relations_with_outcome))
        ELSE PROFILE_DEFAULT_GRANT_RATE

\* JudgeListSerializer.get_grant_rate
get_grant_rate(j) ==
    LET total   == Cardinality(exclude_blank_outcome(docket_relations(j)))
        granted == Cardinality(filter_outcome_grant(docket_relations(j)))
    IN  IF total = 0 THEN SERIALIZER_DEFAULT_GRANT_RATE
        ELSE round1(granted * 100, total)

\* Judge.Meta.ordering = ['full_name']: the rank of a character in the collation
Ord(c) ==
    LET chars == <<" ", "A","B","C","D","E","F","G","H","I","J","K","L","M","N",
                   "O","P","Q","R","S","T","U","V","W","X","Y","Z",
                   "a","b","c","d","e","f","g","h","i","j","k","l","m","n",
                   "o","p","q","r","s","t","u","v","w","x","y","z">>
    IN  CHOOSE i \in DOMAIN chars : chars[i] = c

\* a sorts before b, as texts
RECURSIVE text_before(_, _)
text_before(a, b) ==
    IF a = << >> THEN b # << >>
    ELSE IF b = << >> THEN FALSE
    ELSE IF Ord(Head(a)) # Ord(Head(b)) THEN Ord(Head(a)) < Ord(Head(b))
    ELSE text_before(Tail(a), Tail(b))

\* the judges of S in the default order: by full_name, then by id
judge_order(S) ==
    CHOOSE s \in Orderings(S) :
        \A i, j \in DOMAIN s :
            i < j => \/ text_before(judges[s[i]].full_name, judges[s[j]].full_name)
                     \/ /\ judges[s[i]].full_name = judges[s[j]].full_name
                        /\ s[i] < s[j]

\* judge.authored_opinions
authored_opinions(j) == {o \in DOMAIN opinions : opinions[o].author = j}

\* get_judge_list: the judges selected by search_query and court, cut to limit
judge_list_selection(search_query, court, limit) ==
    LET qs1 == IF search_query # << >>
               THEN {j \in DOMAIN judges :
                        \/ icontains(judges[j].full_name, search_query)
                        \/ icontains(judges[j].biography, search_query)}
               ELSE DOMAIN judges
        qs2 == IF court # << >>
               THEN {j \in qs1 : \E o \in authored_opinions(j) :
                                    icontains(court_of(opinions[o]).name, court)}
               ELSE qs1
    IN  Prefix(judge_order(qs2), limit)

\* JudgeAnalyticsService.get_judge_list
get_judge_list(search_query, court, limit) ==
    LET js == judge_list_selection(search_query, court, limit)
    IN  [k \in DOMAIN js |->
            [id |-> js[k],
             grant_rate |-> judge_list_grant_rate(js[k]),
             total_cases |-> Cardinality(docket_relations(js[k])),
             avg_decision_time |->
                 avg_decision_time(docket_relations(js[k]), DEFAULT_AVG_DAYS),
             recent_cases_count |-> Cardinality(authored_opinions(js[k]))]]

\* JudgeAnalyticsService.get_judge_profile: the analytics part of the profile,
\* the empty answer for a judge that is not stored
get_judge_profile(judge_id) ==
    IF judge_id \notin DOMAIN judges THEN << >>
    ELSE <<[id |-> judge_id,
            grant_rate |-> judge_profile_grant_rate(judge_id),
            total_cases |-> Cardinality(docket_relations(judge_id)),
            avg_decision_time |->
                avg_decision_time(docket_relations(judge_id), DEFAULT_AVG_DAYS),
            recent_cases |-> Cardinality(authored_opinions(judge_id))]>>

BASELINE_RATE == 78

MEDIUM_CONFIDENCE_ABOVE == 5

\* JudgeAnalyticsService.predict_outcome: success_probability is
\* int(historical_rate); the empty answer for a judge that is not stored
predict_outcome(judge_id, case_type) ==
    IF judge_id \notin DOMAIN judges THEN << >>
    ELSE LET cat_relations == filter_nature_of_suit(docket_relations(judge_id), case_type)
             relations_with_outcome == exclude_blank_outcome(cat_relations)
             total_with_outcome == Cardinality(relations_with_outcome)
             granted == Cardinality(filter_outcome_grant(relations_with_outcome))
         IN  <<[id |-> judge_id,
                success_probability |->
                    IF total_with_outcome > 0
                    THEN (granted * 100) \div total_with_outcome
                    ELSE BASELINE_RATE,
                confidence_level |->
                    IF total_with_outcome > MEDIUM_CONFIDENCE_ABOVE
                    THEN "Medium Confidence" ELSE "Low Confidence"]>>

\* str.lower()
lower(text) == [i \in DOMAIN text |-> Lower(text[i])]

\* q in text, for Python strings
contains(text, q) ==
    \E i \in 1..(Len(text) - Len(q) + 1) : SubSeq(text, i, i + Len(q) - 1) = q

\* ' '.join(list)
RECURSIVE join(_)
join(list) ==
    IF list = << >> THEN << >>
    ELSE IF Len(list) = 1 THEN list[1]
    ELSE list[1] \o <<" ">> \o join(Tail(list))

favorable_keywords == 
    <<<<"c","o","n","t","r","a","c","t">>,
      <<"e","v","i","d","e","n","c","e">>,
      <<"p","r","e","c","e","d","e","n","t">>,
      <<"c","l","e","a","r">>>>

unfavorable_keywords == 
    <<<<"d","i","s","p","u","t","e","d">>,
      <<"u","n","c","l","e","a","r">>,
      <<"c","o","m","p","l","e","x">>,
      <<"n","o","v","e","l">>>>

\* the rows of CaseOutcome joined to the judge's relations on the docket, for
\* the dockets whose nature of suit contains case_type: one row per relation
view_outcomes(judge, case_type) ==
    {r \in docket_relations(judge) :
        /\ r.docket \in DOMAIN caseOutcomes
        /\ icontains(dockets[r.docket].nature_of_suit, case_type)}

\* JudgeViewSet.predict_outcome: prediction.success_probability in tenths and
\* prediction.confidence_score
view_predict_outcome(judge, case_type, client_position, key_facts) ==
    LET outcomes      == view_outcomes(judge, case_type)
        total_cases   == Cardinality(outcomes)
        granted_cases ==
            Cardinality({r \in outcomes :
                icontains(caseOutcomes[r.docket].outcome_type, <<"g","r","a","n","t">>)})
        \* base_grant_rate as the fraction num / den
        num == IF total_cases > 0 THEN granted_cases * 100 ELSE 50
        den == IF total_cases > 0 THEN total_cases ELSE 1
        position_adjustment ==
            IF lower(client_position) = <<"p","l","a","i","n","t","i","f","f">> /\ num > 60 * den THEN 5
            ELSE IF lower(client_position) = <<"d","e","f","e","n","d","a","n","t">> /\ num < 40 * den THEN 5
            ELSE 0
        fact_text == lower(join(key_facts))
        favorable ==
            Cardinality({k \in DOMAIN favorable_keywords :
                            contains(fact_text, favorable_keywords[k])})
        unfavorable ==
            Cardinality({k \in DOMAIN unfavorable_keywords :
                            contains(fact_text, unfavorable_keywords[k])})
        prediction_adjustment == position_adjustment + 2 * favorable - 2 * unfavorable
        adjusted == num + prediction_adjustment * den
    IN  [success_probability |->
             IF adjusted <= 5 * den THEN 50
             ELSE IF adjusted >= 95 * den THEN 950
             ELSE round1(adjusted, den),
         confidence_score |-> Min(95, Max(60, total_cases * 2)),
         total_similar_cases |-> total_cases]

\* CaseAnalysisService.get_case_type_statistics: ui_categories
ui_categories ==
    <<[name |-> <<"C","i","v","i","l"," ","R","i","g","h","t","s">>,
       keywords |-> 
           <<<<"c","i","v","i","l"," ","r","i","g","h","t","s">>,
             <<"d","i","s","c","r","i","m","i","n","a","t","i","o","n">>,
             <<"v","o","t","i","n","g">>>>],
      [name |-> <<"C","o","n","t","r","a","c","t"," ","D","i","s","p","u","t","e","s">>,
       keywords |-> 
           <<<<"c","o","n","t","r","a","c","t">>,
             <<"b","r","e","a","c","h">>,
             <<"a","g","r","e","e","m","e","n","t">>>>],
      [name |-> <<"E","m","p","l","o","y","m","e","n","t">>,
       keywords |-> 
           <<<<"e","m","p","l","o","y","m","e","n","t">>,
             <<"l","a","b","o","r">>,
             <<"w","a","g","e">>>>],
      [name |-> <<"P","e","r","s","o","n","a","l"," ","I","n","j","u","r","y">>,
       keywords |-> 
           <<<<"i","n","j","u","r","y">>,
             <<"t","o","r","t">>,
             <<"a","c","c","i","d","e","n","t">>>>]>>

\* the demonstration figures of a category that no docket matches
illustrative_zero_cases(name) == [total |-> 0, gp |-> 0]

illustrative(name) ==
    IF contains(name, <<"C","i","v","i","l">>) THEN [total |-> 234, gp |-> 76]
    ELSE IF contains(name, <<"C","o","n","t","r","a","c","t">>) THEN [total |-> 189, gp |-> 82]
    ELSE IF contains(name, <<"E","m","p","l","o","y","m","e","n","t">>) THEN [total |-> 156, gp |-> 69]
    ELSE [total |-> 145, gp |-> 91]

FALLBACK_GRANTED_PERCENTAGE == 75

\* the dockets of a category: the nature of suit contains its name, or the case
\* name one of its keywords
category_dockets(cat) ==
    {d \in DOMAIN dockets :
        \/ icontains(dockets[d].nature_of_suit, cat.name)
        \/ \E k \in DOMAIN cat.keywords : icontains(dockets[d].case_name, cat.keywords[k])}

\* CaseAnalysisService.get_case_type_statistics
get_case_type_statistics ==
    [k \in DOMAIN ui_categories |->
        LET cat   == ui_categories[k]
            ds    == category_dockets(cat)
            total == Cardinality(ds)
            rels  == {r \in relations : r.docket \in ds}
            total_with_outcome == Cardinality(exclude_blank_outcome(rels))
            granted == Cardinality(filter_outcome_grant(rels))
            gp == IF total = 0 THEN illustrative(cat.name).gp
                  ELSE IF total_with_outcome > 0
                       THEN (granted * 100) \div total_with_outcome
                       ELSE FALLBACK_GRANTED_PERCENTAGE
        IN  [category |-> cat.name,
             total_cases |-> IF total = 0 THEN illustrative(cat.name).total ELSE total,
             granted_percentage |-> gp,
             denied_percentage |-> 100 - gp]]

MaxJudgeLimit == 2

\* an id no judge is stored under
MissingJudge == 3

JudgeIds == {1, 2, MissingJudge}

SearchQueries == {<< >>, <<"K","A">>, <<"T","a","x">>}

CourtNames == {<< >>, <<"u","s">>}

CaseTypes == {<< >>, <<"c","o","n","t","r","a","c","t">>, <<"t","a","x">>}

\* The client_position and key_facts of the prediction requests: neither, a
\* plaintiff with favourable facts, a defendant and a plaintiff with
\* unfavourable facts
PredictionInputs ==
    {[client_position |-> << >>, key_facts |-> << >>],
     [client_position |-> <<"P","l","a","i","n","t","i","f","f">>,
      key_facts |-> <<<<"C","l","e","a","r"," ","e","v","i","d","e","n","c","e">>>>],
     [client_position |-> <<"d","e","f","e","n","d","a","n","t">>,
      key_facts |-> <<<<"n","o","v","e","l">>,
                      <<"u","n","c","l","e","a","r">>>>],
     [client_position |-> <<"p","l","a","i","n","t","i","f","f">>,
      key_facts |-> <<<<"d","i","s","p","u","t","e","d">>,
                      <<"c","o","m","p","l","e","x">>>>]}

NoAnalytics ==
    [op |-> "none", judge |-> None, case_type |-> << >>, status |-> "none",
     result |-> << >>]

AnalyticsCall(op, judge, case_type, status, result) ==
    [op |-> op, judge |-> judge, case_type |-> case_type, status |-> status,
     result |-> result]

\* A call of JudgeAnalyticsService.get_judge_list
GetJudgeList ==
    /\ analytics.op = "none"
    /\ \E search_query \in SearchQueries, court \in CourtNames, limit \in 1..MaxJudgeLimit :
          analytics' = AnalyticsCall("get_judge_list", None, << >>, "returned",
                                     get_judge_list(search_query, court, limit))
    /\ UNCHANGED <<configVars, storeVars, search, network, ingest>>

\* A call of JudgeAnalyticsService.get_judge_profile
GetJudgeProfile ==
    /\ analytics.op = "none"
    /\ \E judge_id \in JudgeIds :
          analytics' = AnalyticsCall("get_judge_profile", judge_id, << >>, "returned",
                                     get_judge_profile(judge_id))
    /\ UNCHANGED <<configVars, storeVars, search, network, ingest>>

\* JudgeListSerializer serializes one stored judge
SerializeJudge ==
    /\ analytics.op = "none"
    /\ \E j \in DOMAIN judges :
          analytics' =
              AnalyticsCall("JudgeListSerializer", j, << >>, "returned",
                            <<[id |-> j,
                               grant_rate |-> get_grant_rate(j),
                               total_cases |-> Cardinality(docket_relations(j))]>>)
    /\ UNCHANGED <<configVars, storeVars, search, network, ingest>>

\* A call of JudgeAnalyticsService.predict_outcome
PredictOutcome ==
    /\ analytics.op = "none"
    /\ \E judge_id \in JudgeIds, case_type \in CaseTypes :
          analytics' = AnalyticsCall("predict_outcome", judge_id, case_type, "returned",
                                     predict_outcome(judge_id, case_type))
    /\ UNCHANGED <<configVars, storeVars, search, network, ingest>>

\* A request to JudgeViewSet.predict_outcome; get_object answers 404 for a
\* judge that is not stored
ViewPredictOutcome ==
    /\ analytics.op = "none"
    /\ \E pk \in JudgeIds, case_type \in CaseTypes, data \in PredictionInputs :
          analytics' =
              IF pk \notin DOMAIN judges
              THEN AnalyticsCall("view_predict_outcome", pk, case_type, "404", << >>)
              ELSE AnalyticsCall("view_predict_outcome", pk, case_type, "200",
                       <<view_predict_outcome(pk, case_type, data.client_position,
                                              data.key_facts)>>)
    /\ UNCHANGED <<configVars, storeVars, search, network, ingest>>

\* A call of CaseAnalysisService.get_case_type_statistics
GetCaseTypeStatistics ==
    /\ analytics.op = "none"
    /\ analytics' = AnalyticsCall("get_case_type_statistics", None, << >>, "returned",
                                  get_case_type_statistics)
    /\ UNCHANGED <<configVars, storeVars, search, network, ingest>>

\* The handler has answered; the services keep nothing of the call
RespondAnalytics ==
    /\ analytics.op # "none"
    /\ analytics' = NoAnalytics
    /\ UNCHANGED <<configVars, storeVars, search, network, ingest>>

\* The relations of judge 1 that hold counts[d, o] rows on docket d with outcome
\* OutcomeSamples[o]; the rows of one docket differ in their role
relation_rows(counts) ==
    {[judge |-> 1, docket |-> p[1], role |-> RoleSamples[p[2]],
      outcome |-> IF p[2] <= counts[p[1], 1] THEN OutcomeSamples[1]
                  ELSE IF p[2] <= counts[p[1], 1] + counts[p[1], 2]
                       THEN OutcomeSamples[2]
                  ELSE OutcomeSamples[3]] :
        p \in {q \in {1, 2} \X (1..Len(RoleSamples)) :
                 q[2] <= counts[q[1], 1] + counts[q[1], 2] + counts[q[1], 3]}}

\* The relations of judge 2
Judge2Relations ==
    {[judge |-> 2, docket |-> 1, role |-> "author", outcome |-> Granted],
     [judge |-> 2, docket |-> 2, role |-> "panel", outcome |-> << >>]}

\* The tables of relations of the analytics: at most MaxRelations rows of
\* judge 1, unique in (judge, docket, role)
RelationTables ==
    {relation_rows(counts) \cup Judge2Relations :
        counts \in {c \in [{1, 2} \X {1, 2, 3} -> 0..MaxRelations] :
                      /\ c[1, 1] + c[1, 2] + c[1, 3] <= Len(RoleSamples)
                      /\ c[2, 1] + c[2, 2] + c[2, 3] <= Len(RoleSamples)
                      /\ c[1, 1] + c[1, 2] + c[1, 3]
                           + c[2, 1] + c[2, 2] + c[2, 3] <= MaxRelations}}

\* CaseOutcome rows, by docket: docket 3 has none
CaseOutcomeSamples ==
    [d \in {1, 2} |-> [outcome_type |-> IF d = 1 THEN <<"d","e","n","i","e","d">>
                                        ELSE <<"g","r","a","n","t","e","d">>]]

-----------------------------------------------------------------------------
(* Citation network: api/views.py citation_network.  The influence score, which
   the code rounds to one decimal, is kept in tenths: 115 is 11.5 *)

MaxCitedBy == 51

MaxCitesTo == 3

MaxCitationLimit == 51

\* The values of DEFAULT_CITATION_LIMIT
CitationLimits == 1..MaxCitationLimit

\* an opinion_id no opinion is stored under
MissingOpinion == 0

\* opinion.cites_to: the stored citations made by the opinion
cites_to_rows(opinion_id) == {c \in citations : c.citing = opinion_id}

\* opinion.cited_by: the stored citations of the opinion
cited_by_rows(opinion_id) == {c \in citations : c.cited = opinion_id}

\* the numbers of S in increasing order
RECURSIVE ascending(_)
ascending(S) ==
    IF S = {} THEN << >>
    ELSE LET m == CHOOSE x \in S : \A y \in S : x <= y
         IN  <<m>> \o ascending(S \ {m})

reversed(s) == [i \in DOMAIN s |-> s[Len(s) + 1 - i]]

\* The orders in which the store may return the rows of a query without ORDER
\* BY: every order of up to two rows, and of more rows the order of insertion
\* and its reverse
query_orders(S) ==
    IF Cardinality(S) <= 2 THEN Orderings(S)
    ELSE {ascending(S), reversed(ascending(S))}

\* the opinion is linked to a cluster and through it to a docket
linked(o) ==
    /\ o \in DOMAIN opinions
    /\ opinions[o].cluster \in DOMAIN clusters
    /\ clusters[opinions[o].cluster].docket \in DOMAIN dockets

\* the entry of a neighbour in cites_to or cited_by
neighbour(o) ==
    [opinion_id |-> o,
     case_name |-> docket_of(opinions[o]).case_name_short,
     date_filed |-> opinions[o].date_filed,
     citation_count |-> Cardinality(cited_by_rows(o))]

\* the slice left out
truncate_none(rows) == rows

\* [:DEFAULT_CITATION_LIMIT]
truncate(rows) == Prefix(rows, citationLimit)

\* the loop over the cut rows: the linked neighbours, in the order of the rows
neighbours(rows) == [k \in DOMAIN SelectSeq(truncate(rows), linked) |->
                        neighbour(SelectSeq(truncate(rows), linked)[k])]

\* the score without its cap
influence_score_uncapped(cited_by, cites_to) ==
    (Len(cited_by) * 20) + (Len(cites_to) * 5)

\* min(100, (len(cited_by) * 2) + (len(cites_to) * 0.5)), in tenths
influence_score(cited_by, cites_to) ==
    Min(1000, (Len(cited_by) * 20) + (Len(cites_to) * 5))

NoNetwork ==
    [op |-> "none", opinion_id |-> None, status |-> "none", cites_to |-> << >>,
     cited_by |-> << >>, influence_score |-> 0]

\* citation_network(request, opinion_id); to_rows and by_rows are the cited and
\* the citing opinions in the order the store returns the citations
citation_network(opinion_id, to_rows, by_rows) ==
    IF opinion_id \notin DOMAIN opinions
    THEN [NoNetwork EXCEPT !.op = "citation_network", !.opinion_id = opinion_id,
                           !.status = "404"]
    ELSE LET cites_to == neighbours(to_rows)
             cited_by == neighbours(by_rows)
         IN  [op |-> "citation_network", opinion_id |-> opinion_id, status |-> "200",
              cites_to |-> cites_to, cited_by |-> cited_by,
              influence_score |-> influence_score(cited_by, cites_to)]

\* A request to citation_network
CitationNetwork ==
    /\ network.op = "none"
    /\ \E opinion_id \in {1, 2, MissingOpinion} :
       \E to_rows \in query_orders({c.cited : c \in cites_to_rows(opinion_id)}),
          by_rows \in query_orders({c.citing : c \in cited_by_rows(opinion_id)}) :
          network' = citation_network(opinion_id, to_rows, by_rows)
    /\ UNCHANGED <<configVars, storeVars, search, analytics, ingest>>

\* The view has answered; it keeps nothing of the request
RespondNetwork ==
    /\ network.op # "none"
    /\ network' = NoNetwork
    /\ UNCHANGED <<configVars, storeVars, search, analytics, ingest>>

\* The opinions of the citation network: one more than can cite opinion 1
NetworkOpinions ==
    [o \in 1..(MaxCitedBy + 1) |-> OpinionRow(1 + (o % 3), None, << >>, 1 + (o % 2), None)]

\* The citations in which cb opinions cite opinion 1 and opinion 1 cites ct
\* opinions, with one citation between two of its neighbours
citation_rows(cb, ct) ==
    {[citing |-> o, cited |-> 1] : o \in 2..(cb + 1)}
    \cup {[citing |-> 1, cited |-> o] : o \in 2..(ct + 1)}
    \cup {[citing |-> 3, cited |-> 2]}

CitationTables ==
    {citation_rows(cb, ct) : cb \in 0..MaxCitedBy, ct \in 0..MaxCitesTo}

-----------------------------------------------------------------------------
(* Most influential cases: api/views.py most_influential_cases.  A date is a
   day number, day 1 being the first day of FirstYear, in years of DaysPerYear
   days *)

MaxInfluentialLimit == 3

MaxInfluentialCitations == 15076

\* The values of DEFAULT_INFLUENTIAL_CASES_LIMIT
InfluentialLimits == 1..MaxInfluentialLimit

FirstYear == 1950

DaysPerYear == 365

\* date.year
year_of(date) == FirstYear + ((date - 1) \div DaysPerYear)

Digits == <<"0", "1", "2", "3", "4", "5", "6", "7", "8", "9">>

is_digit(c) == \E i \in DOMAIN Digits : Digits[i] = c

digit_value(c) == (CHOOSE i \in DOMAIN Digits : Digits[i] = c) - 1

\* int(text) of a text of decimal digits
RECURSIVE int_of(_)
int_of(text) ==
    IF text = << >> THEN 0
    ELSE 10 * int_of(SubSeq(text, 1, Len(text) - 1)) + digit_value(text[Len(text)])

\* int(text) raises ValueError
int_raises(text) == text = << >> \/ \E i \in DOMAIN text : ~is_digit(text[i])

\* text.split(sep)
RECURSIVE split(_, _)
split(text, sep) ==
    IF \A i \in DOMAIN text : text[i] # sep THEN <<text>>
    ELSE LET i == CHOOSE k \in DOMAIN text :
                     text[k] = sep /\ \A l \in 1..(k - 1) : text[l] # sep
         IN  <<SubSeq(text, 1, i - 1)>> \o split(SubSeq(text, i + 1, Len(text)), sep)

DEFAULT_YEAR_FROM == 1950

DEFAULT_YEAR_TO == 2024

\* the years of time_period: "from-to", and the default years when the text
\* does not split in two or a part is no number
parse_time_period(time_period) ==
    LET parts == split(time_period, "-")
    IN  IF Len(parts) # 2 \/ int_raises(parts[1]) \/ int_raises(parts[2])
        THEN [year_from |-> DEFAULT_YEAR_FROM, year_to |-> DEFAULT_YEAR_TO]
        ELSE [year_from |-> int_of(parts[1]), year_to |-> int_of(parts[2])]

\* annotate(citation_count=Count('cited_by'))
citation_count(o) == Cardinality(cited_by_rows(o))

max_citations == 15000

\* the percentage as the view computes it before rounding, never capped
influence_pct_uncapped(count) ==
    LET q == (count * 100) \div max_citations
        r == (count * 100) % max_citations
    IN  IF 2 * r < max_citations THEN q
        ELSE IF 2 * r > max_citations THEN q + 1
        ELSE IF q % 2 = 0 THEN q ELSE q + 1

\* round(min(100, (count / max_citations) * 100), 0): the nearest whole number,
\* a tie going to the even one
influence_pct(count) ==
    IF count >= max_citations THEN 100
    ELSE LET q == (count * 100) \div max_citations
             r == (count * 100) % max_citations
         IN  IF 2 * r < max_citations THEN q
             ELSE IF 2 * r > max_citations THEN q + 1
             ELSE IF q % 2 = 0 THEN q ELSE q + 1

\* the opinions filed in the years year_from..year_to whose docket's nature of
\* suit contains category, when one is given
influential_selection(year_from, year_to, category) ==
    {o \in DOMAIN opinions :
        /\ opinions[o].date_filed # None
        /\ year_of(opinions[o].date_filed) >= year_from
        /\ year_of(opinions[o].date_filed) <= year_to
        /\ category # << >> =>
              icontains(docket_of(opinions[o]).nature_of_suit, category)}

\* order_by('-citation_count'): the orders the store may return, opinions with
\* equal counts in any order
ranked_orders(S) ==
    LET count == [o \in S |-> citation_count(o)]
    IN  {s \in Orderings(S) : \A i, j \in DOMAIN s : i < j => count[s[i]] >= count[s[j]]}

\* [:DEFAULT_INFLUENTIAL_CASES_LIMIT]
influential_slice(ranked) == Prefix(ranked, influentialLimit)

\* the entry of one opinion in cases
influential_case(o) ==
    [opinion_id |-> o,
     case_name |-> IF docket_of(opinions[o]).case_name_short # << >>
                   THEN docket_of(opinions[o]).case_name_short
                   ELSE docket_of(opinions[o]).case_name,
     year |-> year_of(opinions[o].date_filed),
     citation_count |-> citation_count(o),
     influence_score |-> influence_pct(citation_count(o)),
     category |-> docket_of(opinions[o]).nature_of_suit]

\* most_influential_cases(request); ranked is the order in which the store
\* returns the selected opinions
most_influential_cases(time_period, category, ranked) ==
    LET years  == parse_time_period(time_period)
        listed == SelectSeq(influential_slice(ranked), linked)
    IN  [op |-> "most_influential_cases", status |-> "200",
         year_from |-> years.year_from, year_to |-> years.year_to,
         category |-> category,
         cases |-> [k \in DOMAIN listed |-> influential_case(listed[k])]]

TimePeriods ==
    {<<"1","9","5","0","-","2","0","2","4">>,
     <<"1","9","5","1","-","1","9","5","1">>,
     <<"1","9","5","1">>,
     <<"x","-","1","9","5","1">>,
     <<"1","9","5","0","-","1","9","5","1","-","1","9","5","2">>}

Categories == {<< >>, <<"c","o","n","t","r","a","c","t">>}

\* A request to most_influential_cases
MostInfluentialCases ==
    /\ network.op = "none"
    /\ \E time_period \in TimePeriods, category \in Categories :
          LET years == parse_time_period(time_period)
          IN  \E ranked \in ranked_orders(
                     influential_selection(years.year_from, years.year_to, category)) :
                 network' = most_influential_cases(time_period, category, ranked)
    /\ UNCHANGED <<configVars, storeVars, search, analytics, ingest>>

\* The opinions of the ranking: opinions 1 and 2 filed in 1950 and 1951 on a
\* contract and an employment docket, opinion 3 filed in 1951 on a docket with
\* no nature of suit, opinion 4 filed in 2025, and n opinions that cite them,
\* which have no filing date
InfluentialOpinions(n) ==
    [o \in 1..(4 + n) |->
        CASE o = 1 -> OpinionRow(1, None, << >>, 1, None)
          [] o = 2 -> OpinionRow(2, None, << >>, 1 + DaysPerYear, None)
          [] o = 3 -> OpinionRow(3, None, << >>, 2 * DaysPerYear, None)
          [] o = 4 -> OpinionRow(1, None, << >>, 1 + ((2025 - FirstYear) * DaysPerYear), None)
          [] OTHER -> OpinionRow(3, None, << >>, None, None)]

\* The numbers of citations of opinion 1 and of opinion 2 in the stores
CitedBySamples1 == {0, 1, 75, 225, MaxInfluentialCitations}

CitedBySamples2 == {0, 1, 225}

\* The citations in which c1 opinions cite opinion 1, c2 opinions cite opinion
\* 2 and three opinions cite opinion 4
influential_rows(c1, c2) ==
    {[citing |-> o, cited |-> 1] : o \in 5..(4 + c1)}
    \cup {[citing |-> o, cited |-> 2] : o \in 5..(4 + c2)}
    \cup {[citing |-> o, cited |-> 4] : o \in 1..3}

\* The stores of the ranking: the opinions and the citations between them
InfluentialStores ==
    {[opinions |-> InfluentialOpinions(Max(c1, c2)), citations |-> influential_rows(c1, c2)] :
        c1 \in CitedBySamples1, c2 \in CitedBySamples2}

-----------------------------------------------------------------------------
(* Ingestion of citations: data_ingestion/data_processors.py process_citation
   and the fetch_citations management command *)

\* The most OpinionsCited rows an ingestion run stores
MaxCitationRows == 3

\* The opinions of the ingestion runs: opinions 1 and 2 are stored
IngestOpinions == [o \in {1, 2} |-> OpinionRow(o, None, << >>, o, None)]

\* The opinion ids a citation is ingested with: the stored opinions and one
\* that is not stored
IngestOpinionIds == {1, 2, 3}

\* The depths a citation is ingested with
Depths == {1, 2}

\* The OpinionsCited rows of a (citing, cited) pair
edges(rows, citing, cited) == {r \in rows : r.citing = citing /\ r.cited = cited}

\* The primary key of the next row of an auto-incremented table
next_id(rows) ==
    IF rows = {} THEN 1
    ELSE 1 + (CHOOSE m \in {r.id : r \in rows} : \A r \in rows : r.id <= m)

\* OpinionsCited.objects.get_or_create(citing_opinion, cited_opinion,
\* defaults={'depth': depth}), as [rows, row, created]
get_or_create_always_creates(rows, citing, cited, depth) ==
    LET new == [id |-> next_id(rows), citing |-> citing, cited |-> cited, depth |-> depth]
    IN  [rows |-> rows \cup {new}, row |-> <<new>>, created |-> TRUE]

get_or_create(rows, citing, cited, depth) ==
    IF edges(rows, citing, cited) # {}
    THEN [rows |-> rows,
          row |-> <<CHOOSE r \in edges(rows, citing, cited) : TRUE>>,
          created |-> FALSE]
    ELSE LET new == [id |-> next_id(rows), citing |-> citing, cited |-> cited,
                     depth |-> depth]
         IN  [rows |-> rows \cup {new}, row |-> <<new>>, created |-> TRUE]

\* DataProcessor.process_citation, as [rows, row, created]: row is the
\* returned row in a sequence, empty for None when one of the two opinions is
\* not stored
process_citation(store, rows, citing_opinion_id, cited_opinion_id, depth) ==
    IF citing_opinion_id \notin DOMAIN store \/ cited_opinion_id \notin DOMAIN store
    THEN [rows |-> rows, row |-> << >>, created |-> FALSE]
    ELSE get_or_create(rows, citing_opinion_id, cited_opinion_id, depth)

NoIngest ==
    [op |-> "none", citing |-> None, cited |-> None, depth |-> None,
     row |-> << >>, created |-> FALSE, raised |-> FALSE]

\* A call of process_citation for two of the opinion ids at one of the depths,
\* while the table holds fewer than max_rows rows
ProcessCitationWith(opinion_ids, depths, max_rows) ==
    /\ Cardinality(citations) < max_rows
    /\ \E citing \in opinion_ids, cited \in opinion_ids, depth \in depths :
          LET r == process_citation(opinions, citations, citing, cited, depth)
          IN  /\ citations' = r.rows
              /\ ingest' = [NoIngest EXCEPT !.op = "process_citation",
                                            !.citing = citing,
                                            !.cited = cited,
                                            !.depth = depth,
                                            !.row = r.row,
                                            !.created = r.created]
    /\ UNCHANGED <<configVars, courts, judges, dockets, clusters, opinions, relations,
                   caseOutcomes, search, analytics, network>>

ProcessCitation == ProcessCitationWith(IngestOpinionIds, Depths, MaxCitationRows)

\* The fetch_citations command on one citation of the feed: it calls
\* process_citation with the keywords source_opinion_id, target_opinion_id
\* and citation_type, which process_citation does not take, so the call
\* raises TypeError before it reads the store; the command catches it and
\* counts the citation as skipped
FetchCitations ==
    /\ \E citing \in IngestOpinionIds \cup {None}, cited \in IngestOpinionIds \cup {None} :
          ingest' = [NoIngest EXCEPT !.op = "fetch_citations",
                                     !.citing = citing,
                                     !.cited = cited,
                                     !.raised = (citing # None /\ cited # None)]
    /\ UNCHANGED <<configVars, storeVars, search, analytics, network>>

-----------------------------------------------------------------------------
(* Ingestion of dockets: data_ingestion/data_processors.py process_docket *)

\* Days before the first of each month, and the days of each month, in the
\* model's calendar of 365-day years
DaysBeforeMonth == <<0, 31, 59, 90, 120, 151, 181, 212, 243, 273, 304, 334>>

DaysInMonth == <<31, 28, 31, 30, 31, 30, 31, 31, 30, 31, 30, 31>>

\* DataProcessor.parse_date: datetime.strptime(date_str, '%Y-%m-%d').date(),
\* None for no text and for a text that is not such a date; dates count days
\* from the last day of 1949
parse_date(date_str) ==
    IF date_str = << >> THEN None
    ELSE LET parts == split(date_str, "-")
         IN  IF \/ Len(parts) # 3
                \/ \E i \in DOMAIN parts : int_raises(parts[i])
             THEN None
             ELSE IF Len(parts[1]) # 4 \/ Len(parts[2]) > 2 \/ Len(parts[3]) > 2
             THEN None
             ELSE LET y == int_of(parts[1])
                      m == int_of(parts[2])
                      d == int_of(parts[3])
                  IN  IF m \notin 1..12 THEN None
                      ELSE IF d \notin 1..DaysInMonth[m] THEN None
                      ELSE ((y - FirstYear) * DaysPerYear) + DaysBeforeMonth[m] + d

MAX_SHORT_NAME == 255

KEPT_SHORT_NAME == 252

\* The fallback and the truncation of case_name_short
short_name(data) ==
    LET s == IF data.case_name_short # << >> THEN data.case_name_short
             ELSE data.case_name
    IN  IF Len(s) > MAX_SHORT_NAME
        THEN Prefix(s, KEPT_SHORT_NAME) \o <<".", ".", ".">>
        ELSE s

\* Court.objects.get(court_id=court_id): the primary keys of the matching rows
court_rows(store, court_id) == {c \in DOMAIN store : store[c].court_id = court_id}

\* The row of the court that fetch_court_by_id returns and process_court stores
fetched_court(court_id) ==
    [court_id |-> court_id, name |-> <<"N","e","w">>, jurisdiction |-> "F",
     position |-> "District"]

\* The first part of process_docket: the court of the docket, as
\* [courts, court, raised]; court is None when the docket is skipped.  A URL
\* is the sequence of its '/'-separated parts, which is what split('/') makes
\* of it, and [-2] of fewer than two parts raises IndexError.
resolve_court(store, data, court, fetch) ==
    IF court # None \/ data.court = << >>
    THEN [courts |-> store, court |-> court, raised |-> FALSE]
    ELSE IF Len(data.court) < 2
    THEN [courts |-> store, court |-> None, raised |-> TRUE]
    ELSE LET court_id == data.court[Len(data.court) - 1]
         IN  IF court_rows(store, court_id) # {}
             THEN [courts |-> store,
                   court |-> CHOOSE c \in court_rows(store, court_id) : TRUE,
                   raised |-> FALSE]
             ELSE IF fetch # "ok"
             THEN [courts |-> store, court |-> None, raised |-> FALSE]
             ELSE [courts |-> Append(store, fetched_court(court_id)),
                   court |-> Len(store) + 1,
                   raised |-> FALSE]

\* defaults_dict of process_docket; embedding None stands for no embedding key
docket_defaults(data, court, embedding) ==
    LET filed == parse_date(data.date_filed)
        terminated == parse_date(data.date_terminated)
    IN  [court |-> court,
         case_name |-> data.case_name,
         case_name_short |-> short_name(data),
         nature_of_suit |-> data.nature_of_suit,
         date_filed |-> filed,
         date_terminated |-> terminated,
         decision_days |-> IF filed # None /\ terminated # None
                           THEN terminated - filed ELSE None,
         embedding |-> embedding]

\* The primary keys of the Docket rows of a docket_id
docket_rows(store, docket_id) == {d \in DOMAIN store : store[d].docket_id = docket_id}

docket_row(docket_id, defaults) ==
    [docket_id |-> docket_id,
     court |-> defaults.court,
     case_name |-> defaults.case_name,
     case_name_short |-> defaults.case_name_short,
     nature_of_suit |-> defaults.nature_of_suit,
     date_filed |-> defaults.date_filed,
     date_terminated |-> defaults.date_terminated,
     decision_days |-> defaults.decision_days,
     outcome_status |-> << >>,
     precedential_status |-> << >>,
     embedding |-> defaults.embedding]

\* Docket.objects.update_or_create(docket_id=docket_id, defaults=defaults), as
\* [dockets, row, created]
update_or_create_always_creates(store, docket_id, defaults) ==
    [dockets |-> Append(store, docket_row(docket_id, defaults)),
     row |-> Len(store) + 1,
     created |-> TRUE]

update_or_create(store, docket_id, defaults) ==
    IF docket_rows(store, docket_id) # {}
    THEN LET d == CHOOSE k \in docket_rows(store, docket_id) : TRUE
             updated == [docket_row(docket_id, defaults) EXCEPT
                            !.outcome_status = store[d].outcome_status,
                            !.precedential_status = store[d].precedential_status,
                            !.embedding = IF defaults.embedding # None
                                          THEN defaults.embedding
                                          ELSE store[d].embedding]
         IN  [dockets |-> [store EXCEPT ![d] = updated], row |-> d, created |-> FALSE]
    ELSE [dockets |-> Append(store, docket_row(docket_id, defaults)),
          row |-> Len(store) + 1,
          created |-> TRUE]

\* DataProcessor.process_docket, as [courts, dockets, row, created, raised]:
\* row is the primary key of the returned docket, None when it is skipped
process_docket(court_store, store, data, court, fetch, embedding) ==
    LET c == resolve_court(court_store, data, court, fetch)
    IN  IF c.raised \/ c.court = None
        THEN [courts |-> c.courts, dockets |-> store, row |-> None,
              created |-> FALSE, raised |-> c.raised]
        ELSE LET u == update_or_create(store, data.id,
                                       docket_defaults(data, c.court, embedding))
             IN  [courts |-> c.courts, dockets |-> u.dockets, row |-> u.row,
                  created |-> u.created, raised |-> FALSE]

\* The URLs and ids a payload names its court with: a stored court, a court
\* that is not stored, a bare id, and none
CourtUrls == {<<"courts", "scotus", "">>, <<"courts", "new", "">>, <<"scotus">>, << >>}

LongName == [i \in 1..(MAX_SHORT_NAME + 1) |-> "a"]

DateTexts ==
    [filed |-> <<"1","9","5","0","-","0","1","-","0","2">>,
     terminated |-> <<"1","9","5","0","-","0","2","-","0","1">>,
     bad_month |-> <<"1","9","5","0","-","1","3","-","0","1">>,
     no_date |-> << >>]

\* The bodies of the docket payloads: a short docket with both dates, and one
\* with a long name, no short name, a date that is none and no termination
DocketBodies ==
    <<[case_name |-> <<"a","B">>, case_name_short |-> <<"a">>,
       nature_of_suit |-> <<"T","a","x">>,
       date_filed |-> DateTexts.filed,
       date_terminated |-> DateTexts.terminated],
      [case_name |-> LongName, case_name_short |-> << >>,
       nature_of_suit |-> << >>,
       date_filed |-> DateTexts.bad_month,
       date_terminated |-> DateTexts.no_date]>>

docket_payload(id, url, body) ==
    [id |-> id, court |-> url, case_name |-> body.case_name,
     case_name_short |-> body.case_name_short,
     nature_of_suit |-> body.nature_of_suit,
     date_filed |-> body.date_filed, date_terminated |-> body.date_terminated]

\* The docket payloads of the ingestion runs: a sample in which every court
\* URL and every body occurs under every docket_id
DocketPayloads ==
    UNION {{docket_payload(id, <<"courts", "scotus", "">>, DocketBodies[1]),
            docket_payload(id, <<"courts", "new", "">>, DocketBodies[2]),
            docket_payload(id, <<"scotus">>, DocketBodies[1]),
            docket_payload(id, << >>, DocketBodies[2])} : id \in {1, 2}}

\* What the openai import, the embedding provider and the CourtListener court
\* lookup do during one call
DocketEnvironments ==
    {[openai |-> TRUE, remote |-> "ok", vec |-> 1, fetch |-> "ok"],
     [openai |-> TRUE, remote |-> "network_error", vec |-> None, fetch |-> "error"],
     [openai |-> FALSE, remote |-> "ok", vec |-> 1, fetch |-> "ok"]}

\* A call of process_docket with one of the payloads, for one of the courts
\* given (None: no court is passed), in one of the environments
ProcessDocketWith(payloads, given_courts, environments) ==
    /\ \E data \in payloads, court \in given_courts, env \in environments :
          LET e == ingest_generate_embedding(env.openai, apiKey, env.remote, env.vec)
              r == process_docket(courts, dockets, data, court, env.fetch, e.value)
          IN  /\ courts' = r.courts
              /\ dockets' = r.dockets
              /\ ingest' = [op |-> "process_docket", data |-> data, court |-> court,
                            embedding |-> e.value, row |-> r.row,
                            created |-> r.created, raised |-> r.raised]
    /\ UNCHANGED <<configVars, judges, clusters, opinions, relations, caseOutcomes,
                   citations, search, analytics, network>>

ProcessDocket == ProcessDocketWith(DocketPayloads, {None, 3}, DocketEnvironments)

-----------------------------------------------------------------------------
(* The stores of the case type statistics *)

MaxCaseTypeRelations == 3

\* The tables of dockets of the case type statistics: none, and the first one,
\* two or three of the sample dockets
DocketStores == {[d \in 1..n |-> DocketSamples[d]] : n \in 0..3}

\* The tables of relations on the dockets of a store: at most
\* MaxCaseTypeRelations rows of judge 1, and the rows of judge 2
case_type_relations(store) ==
    {{r \in relation_rows(counts) \cup Judge2Relations : r.docket \in DOMAIN store} :
        counts \in {c \in [{1, 2} \X {1, 2, 3} -> 0..MaxCaseTypeRelations] :
                      c[1, 1] + c[1, 2] + c[1, 3] + c[2, 1] + c[2, 2] + c[2, 3]
                          <= MaxCaseTypeRelations}}

-----------------------------------------------------------------------------
(* Case history of a judge: api/ai_services.py get_case_history, api/views.py
   judge_case_history and JudgeViewSet.case_history.  Dates count days *)

\* The most citations an opinion of the case history receives
MaxHistoryCitations == 101

relation_docket(r) == r.docket

opinion_docket(o) == clusters[opinions[o].cluster].docket

\* The status filter of a queryset of rows whose docket is docket[row]
filter_status(rows, docket, closed, active, case_status) ==
    IF case_status = closed
    THEN {r \in rows : dockets[docket[r]].date_terminated # None}
    ELSE IF case_status = active
    THEN {r \in rows : dockets[docket[r]].date_terminated = None}
    ELSE rows

relation_dockets(rows) == [r \in rows |-> relation_docket(r)]

opinion_dockets(rows) == [o \in rows |-> opinion_docket(o)]

\* The rows of S by decreasing key, as PostgreSQL sorts them: rows with no key
\* first
RECURSIVE order_by_desc(_, _)
order_by_desc(S, key) ==
    IF S = {} THEN << >>
    ELSE LET first == CHOOSE x \in S :
                         \A y \in S :
                             \/ key[x] = None /\ (key[y] = None => x <= y)
                             \/ key[x] # None /\ key[y] # None /\ key[x] > key[y]
                             \/ key[x] # None /\ key[y] = key[x] /\ x <= y
         IN  <<first>> \o order_by_desc(S \ {first}, key)

CASE_LIST_LIMIT == 10

HIGH_DECISION_DAYS == 100

HISTORY_DEFAULT_AVG_DAYS == 590

\* JudgeAnalyticsService.get_case_history: one entry of case_list
service_case(rel) ==
    LET d == dockets[rel.docket]
    IN  [docket |-> rel.docket,
         date_decided |-> d.date_terminated,
         duration |-> IF d.decision_days # None THEN d.decision_days ELSE 0,
         outcome |-> IF rel.outcome # << >> THEN rel.outcome
                     ELSE <<"P","e","n","d","i","n","g">>,
         precedent_value |-> IF d.decision_days # None
                                  /\ d.decision_days > HIGH_DECISION_DAYS
                             THEN "High" ELSE "Medium",
         status |-> IF d.date_terminated # None THEN "Closed" ELSE "Active"]

\* JudgeAnalyticsService.get_case_history; rows is the order in which the
\* store returns the dockets of the filtered relations
get_case_history(judge_id, case_type, case_status, rows) ==
    IF judge_id \notin DOMAIN judges THEN [status |-> "empty", cases |-> << >>]
    ELSE LET all == docket_relations(judge_id)
             typed == IF case_type # << >> THEN filter_nature_of_suit(all, case_type)
                      ELSE all
             rels == filter_status(typed, relation_dockets(typed), "closed", "active",
                                   case_status)
             cut == Prefix(rows, CASE_LIST_LIMIT)
         IN  [status |-> "returned",
              total_cases |-> Cardinality(all),
              closed_cases |->
                  Cardinality(filter_status(all, relation_dockets(all), "closed", "active",
                                            "closed")),
              active_cases |->
                  Cardinality(filter_status(all, relation_dockets(all), "closed", "active",
                                            "active")),
              avg_decision_time |-> avg_decision_time(rels, HISTORY_DEFAULT_AVG_DAYS),
              cases |-> [k \in DOMAIN cut |->
                            service_case(CHOOSE r \in rels : r.docket = cut[k])]]

\* The dockets of the relations that get_case_history lists
history_dockets(judge_id, case_type, case_status) ==
    LET all == docket_relations(judge_id)
        typed == IF case_type # << >> THEN filter_nature_of_suit(all, case_type)
                 ELSE all
    IN  {r.docket : r \in filter_status(typed, relation_dockets(typed), "closed", "active",
                                        case_status)}

\* duration_days of the two views: to the termination, or to today while the
\* case is open; None for a docket with no filing date
duration_days(d, today) ==
    IF d.date_filed # None /\ d.date_terminated # None
    THEN d.date_terminated - d.date_filed
    ELSE IF d.date_filed # None THEN today - d.date_filed
    ELSE None

HIGH_ABOVE == 100

MEDIUM_ABOVE == 20

\* precedent_value of judge_case_history
view_precedent_value(citing_count) ==
    IF citing_count > HIGH_ABOVE THEN "High"
    ELSE IF citing_count > MEDIUM_ABOVE THEN "Medium"
    ELSE "Low"

\* the opinions of the judge that pass the filters of judge_case_history
view_history_opinions(judge_id, case_type, case_status, date_from, date_to) ==
    LET all == authored_opinions(judge_id)
        typed == IF case_type # << >>
                 THEN {o \in all : icontains(docket_of(opinions[o]).nature_of_suit,
                                             case_type)}
                 ELSE all
        stated == filter_status(typed, opinion_dockets(typed), "closed", "active", case_status)
        from == IF date_from # None
                THEN {o \in stated : opinions[o].date_filed # None
                                     /\ opinions[o].date_filed >= date_from}
                ELSE stated
    IN  IF date_to # None
        THEN {o \in from : opinions[o].date_filed # None
                           /\ opinions[o].date_filed <= date_to}
        ELSE from

\* one entry of cases of judge_case_history
view_case(o, today) ==
    LET d == docket_of(opinions[o])
        citing_count == Cardinality(cited_by_rows(o))
        cites_to_count == Cardinality(cites_to_rows(o))
    IN  [docket |-> opinion_docket(o),
         opinion |-> o,
         date_filed |-> d.date_filed,
         date_decided |-> IF d.date_terminated # None THEN d.date_terminated
                          ELSE opinions[o].date_filed,
         duration_days |-> duration_days(d, today),
         status |-> IF d.date_terminated # None THEN "Closed" ELSE "Active",
         cited_by |-> citing_count,
         cites_to |-> cites_to_count,
         precedent_value |-> view_precedent_value(citing_count)]

\* round(num / den, 0): the nearest whole number, a tie going to the even one
round0(num, den) ==
    LET q == num \div den
        r == num % den
    IN  IF 2 * r < den THEN q
        ELSE IF 2 * r > den THEN q + 1
        ELSE IF q % 2 = 0 THEN q ELSE q + 1

\* views.judge_case_history: 404 for a judge that is not stored; the average
\* of the durations divides by the number of cases with a duration that is
\* neither None nor 0, and raises ZeroDivisionError when there are cases but
\* none of them has one
judge_case_history(judge_id, case_type, case_status, date_from, date_to, today) ==
    IF judge_id \notin DOMAIN judges THEN [status |-> "404", cases |-> << >>]
    ELSE LET selected == view_history_opinions(judge_id, case_type, case_status,
                                               date_from, date_to)
             ordered == order_by_desc(selected,
                                      [o \in selected |-> opinions[o].date_filed])
             listed == SelectSeq(ordered, linked)
             cases == [k \in DOMAIN listed |-> view_case(listed[k], today)]
             timed == {k \in DOMAIN cases : cases[k].duration_days # None
                                            /\ cases[k].duration_days # 0}
             closed == {k \in DOMAIN cases : cases[k].status = "Closed"}
         IN  IF cases # << >> /\ timed = {}
             THEN [status |-> "raised", cases |-> << >>]
             ELSE [status |-> "200",
                   total_cases |-> Len(cases),
                   closed_cases |-> Cardinality(closed),
                   active_cases |-> Len(cases) - Cardinality(closed),
                   avg_decision_days |->
                       IF cases = << >> THEN 0
                       ELSE round0(Sum([k \in timed |-> cases[k].duration_days], timed),
                                   Cardinality(timed)),
                   cases |-> cases]

\* JudgeViewSet._update_or_create_opinion: the body is `pass`, whatever the
\* upstream opinion is
update_or_create_opinion_stores(store, opinion_data) == Append(store, opinion_data)

update_or_create_opinion(store, opinion_data) == store

\* JudgeViewSet._sync_judge_cases_from_courtlistener: the opinions after the
\* sync; upstream is the answer of the CourtListener request, whose results
\* are handed to _update_or_create_opinion one by one, and nothing is done for
\* another status or a failed request
RECURSIVE sync_results(_, _)
sync_results(store, results) ==
    IF results = << >> THEN store
    ELSE sync_results(update_or_create_opinion(store, Head(results)), Tail(results))

sync_judge_cases_from_courtlistener(store, upstream) ==
    IF upstream.status = 200 THEN sync_results(store, upstream.results)
    ELSE store

\* the opinions of the judge that pass the filters and the search of
\* JudgeViewSet.case_history
viewset_history_opinions(judge_id, search_text, case_type, case_status, date_from, date_to) ==
    LET all == authored_opinions(judge_id)
        typed == IF case_type # << >>
                 THEN {o \in all : icontains(docket_of(opinions[o]).nature_of_suit,
                                             case_type)}
                 ELSE all
        stated == filter_status(typed, opinion_dockets(typed), "Closed", "Active", case_status)
        from == IF date_from # None
                THEN {o \in stated : docket_of(opinions[o]).date_filed # None
                                     /\ docket_of(opinions[o]).date_filed >= date_from}
                ELSE stated
        to == IF date_to # None
              THEN {o \in from : docket_of(opinions[o]).date_filed # None
                                 /\ docket_of(opinions[o]).date_filed <= date_to}
              ELSE from
    IN  IF search_text # << >>
        THEN {o \in to :
                 \/ icontains(docket_of(opinions[o]).case_name, search_text)
                 \/ icontains(docket_of(opinions[o]).case_name_short, search_text)
                 \/ icontains(docket_of(opinions[o]).docket_number, search_text)
                 \/ icontains(docket_of(opinions[o]).nature_of_suit, search_text)}
        ELSE to

\* one entry of cases of JudgeViewSet.case_history
viewset_case(o, today) ==
    LET d == docket_of(opinions[o])
        has_outcome == opinion_docket(o) \in DOMAIN caseOutcomes
    IN  [docket |-> opinion_docket(o),
         opinion |-> o,
         date_filed |-> d.date_filed,
         date_terminated |-> d.date_terminated,
         status |-> IF d.date_terminated # None THEN "Closed" ELSE "Active",
         outcome |-> IF has_outcome THEN caseOutcomes[opinion_docket(o)].outcome_type
                     ELSE <<"P","e","n","d","i","n","g">>,
         duration_days |-> duration_days(d, today),
         decision_days |-> IF has_outcome
                           THEN caseOutcomes[opinion_docket(o)].decision_days
                           ELSE None,
         citations_count |-> Cardinality(cited_by_rows(o))]

\* Avg('decision_days') of the CaseOutcome rows joined to the relations of the
\* judge, or 0, rounded to one decimal, in tenths
viewset_avg_decision_time(judge_id, case_type) ==
    LET joined == {r \in docket_relations(judge_id) :
                      /\ r.docket \in DOMAIN caseOutcomes
                      /\ caseOutcomes[r.docket].decision_days # None
                      /\ case_type # << >> =>
                            icontains(dockets[r.docket].nature_of_suit, case_type)}
        days == [r \in joined |-> caseOutcomes[r.docket].decision_days]
    IN  IF joined = {} THEN 0 ELSE round1(Sum(days, joined), Cardinality(joined))

\* JudgeViewSet.case_history after the sync: 404 from get_object for a judge
\* that is not stored; limit and page are positive numbers
case_history(judge_id, search_text, case_type, case_status, date_from, date_to, limit, page, today) ==
    IF judge_id \notin DOMAIN judges THEN [status |-> "404", cases |-> << >>]
    ELSE LET selected == viewset_history_opinions(judge_id, search_text, case_type,
                                                  case_status, date_from, date_to)
             ordered == order_by_desc(selected,
                            [o \in selected |-> docket_of(opinions[o]).date_filed])
             paginated == SubSeq(ordered, ((page - 1) * limit) + 1,
                                 Min(Len(ordered), page * limit))
             cases == [k \in DOMAIN paginated |-> viewset_case(paginated[k], today)]
         IN  [status |-> "200",
              total_cases |-> Cardinality(selected),
              active_cases |->
                  Cardinality({o \in selected :
                                  docket_of(opinions[o]).date_terminated = None}),
              closed_cases |->
                  Cardinality({o \in selected :
                                  docket_of(opinions[o]).date_terminated # None}),
              avg_decision_time |-> viewset_avg_decision_time(judge_id, case_type),
              total_pages |-> (Cardinality(selected) + limit - 1) \div limit,
              cases |-> cases]

\* views.case_prediction_advanced: the judge part.  A judge_id that is not
\* stored is passed over (except Judge.DoesNotExist: pass) and the prediction
\* is made from the case type alone.  Rates are fractions [num, den] of 100.
case_prediction_advanced(case_type, judge_id) ==
    LET similar == {d \in DOMAIN caseOutcomes :
                       icontains(dockets[d].nature_of_suit, case_type)}
        favorable == {d \in similar :
                         \/ icontains(caseOutcomes[d].outcome_type, <<"g","r","a","n","t">>)
                         \/ icontains(caseOutcomes[d].outcome_type, <<"f","a","v","o","r">>)}
        base == IF similar # {}
                THEN [num |-> Cardinality(favorable), den |-> Cardinality(similar)]
                ELSE [num |-> 1, den |-> 2]
        found == judge_id # None /\ judge_id \in DOMAIN judges
        rels == docket_relations(judge_id)
        judge_total == Cardinality(exclude_blank_outcome(rels))
        judge_rate == IF judge_total > 0
                      THEN [num |-> Cardinality(filter_outcome_grant(rels)),
                            den |-> judge_total]
                      ELSE [num |-> 1, den |-> 2]
        \* base + (judge_rate - base) * 0.3, as a fraction of 100
        adjusted == IF found
                    THEN [num |-> (7 * base.num * judge_rate.den)
                                      + (3 * judge_rate.num * base.den),
                          den |-> 10 * base.den * judge_rate.den]
                    ELSE base
        \* min(95, max(5, .)), as a fraction of 100
        predicted == IF 100 * adjusted.num > 95 * adjusted.den
                     THEN [num |-> 95, den |-> 100]
                     ELSE IF 100 * adjusted.num < 5 * adjusted.den
                     THEN [num |-> 5, den |-> 100]
                     ELSE adjusted
    IN  [status |-> "200",
         judge_data |-> IF found THEN <<[judge_id |-> judge_id,
                                         total_cases |-> judge_total]>>
                        ELSE << >>,
         predicted_success_rate |-> predicted,
         outcome_category |->
             IF 100 * predicted.num >= 75 * predicted.den THEN "Very Favorable"
             ELSE IF 100 * predicted.num >= 60 * predicted.den THEN "Favorable"
             ELSE IF 100 * predicted.num >= 40 * predicted.den THEN "Challenging"
             ELSE "Difficult"]

\* The dockets of the case history: a closed contract docket of 30 days, a
\* closed employment docket of 120 days and an open docket, filed on the
\* given day or with no filing date
HistoryDockets(filed3) ==
    [d \in {1, 2, 3} |->
        CASE d = 1 -> [court |-> 1, docket_number |-> <<"1">>,
                       case_name |-> <<"a","B"," ","t","o","r","t">>,
                       case_name_short |-> <<"a","B">>,
                       nature_of_suit |-> <<"C","o","n","t","r","a","c","t">>,
                       date_filed |-> 2, date_terminated |-> 32, decision_days |-> 30]
          [] d = 2 -> [court |-> 2, docket_number |-> <<"2">>,
                       case_name |-> <<"a">>,
                       case_name_short |-> <<"a">>,
                       nature_of_suit |-> <<"E","m","p","l","o","y","m","e","n","t">>,
                       date_filed |-> 1, date_terminated |-> 121, decision_days |-> 120]
          [] d = 3 -> [court |-> 3, docket_number |-> << >>,
                       case_name |-> <<"c">>,
                       case_name_short |-> << >>,
                       nature_of_suit |-> << >>,
                       date_filed |-> filed3, date_terminated |-> None,
                       decision_days |-> None]]

\* The opinions of the case history: opinion k of judge 1 on docket k, and n
\* opinions of no stored judge that cite them
HistoryOpinions(n) ==
    [o \in 1..(3 + n) |->
        IF o <= 3 THEN OpinionRow(o, 1, << >>, 4 - o, None)
        ELSE OpinionRow(3, None, << >>, None, None)]

\* The citations in which c1 opinions cite opinion 1 and opinion 3 cites opinion 2
history_citations(c1) ==
    {[citing |-> o, cited |-> 1] : o \in 4..(3 + c1)} \cup {[citing |-> 3, cited |-> 2]}

\* The relations of judge 1, one on each docket
HistoryRelations ==
    {[judge |-> 1, docket |-> 1, role |-> "author", outcome |-> Granted],
     [judge |-> 1, docket |-> 2, role |-> "author", outcome |-> Denied],
     [judge |-> 1, docket |-> 3, role |-> "panel", outcome |-> << >>]}

\* The CaseOutcome rows: docket 3 has none
HistoryCaseOutcomes ==
    [d \in {1, 2} |->
        IF d = 1 THEN [outcome_type |-> <<"g","r","a","n","t","e","d">>, decision_days |-> 30]
        ELSE [outcome_type |-> <<"d","e","n","i","e","d">>, decision_days |-> None]]

\* The numbers of citations that opinion 1 receives
HistoryCitedBy == {0, 20, 21, 100, MaxHistoryCitations}

HistoryStores ==
    {[dockets |-> HistoryDockets(filed3),
      opinions |-> HistoryOpinions(c1),
      citations |-> history_citations(c1)] :
        c1 \in HistoryCitedBy, filed3 \in {10, None}}

\* The days on which the views are called
Todays == {200, 500}

\* No answer of CourtListener: the request failed, or none was made
NoUpstream == [status |-> None, results |-> << >>]

\* What the CourtListener request of the sync does: it answers with an
\* opinion, refuses, or fails
Upstreams ==
    {[status |-> 200, results |-> <<OpinionRow(1, 1, <<"n","e","w">>, 150, None)>>],
     [status |-> 200, results |-> << >>],
     [status |-> 503, results |-> << >>],
     NoUpstream}

HistoryRequest(judge_id, search_text, case_type, case_status, date_from, date_to, limit, page) ==
    [judge |-> judge_id, search |-> search_text, case_type |-> case_type,
     case_status |-> case_status, date_from |-> date_from, date_to |-> date_to,
     limit |-> limit, page |-> page]

\* The requests of get_case_history (judge, case_type, status)
ServiceRequests ==
    {HistoryRequest(j, << >>, t, s, None, None, None, None) :
        j \in JudgeIds,
        t \in {<< >>, <<"c","o","n","t","r","a","c","t">>},
        s \in {"", "active", "closed"}}

\* The requests of judge_case_history (judge, case_type, status, date_from,
\* date_to)
ViewRequests ==
    {HistoryRequest(1, << >>, << >>, "", None, None, None, None),
     HistoryRequest(1, << >>, <<"c","o","n","t","r","a","c","t">>, "closed", None, None,
                    None, None),
     HistoryRequest(1, << >>, << >>, "active", None, None, None, None),
     HistoryRequest(1, << >>, << >>, "closed", 2, 2, None, None),
     HistoryRequest(1, << >>, << >>, "", 2, None, None, None),
     HistoryRequest(2, << >>, << >>, "", None, None, None, None),
     HistoryRequest(MissingJudge, << >>, << >>, "", None, None, None, None)}

\* The requests of JudgeViewSet.case_history
ViewSetRequests ==
    {HistoryRequest(1, << >>, << >>, "", None, None, 2, 1),
     HistoryRequest(1, << >>, << >>, "", None, None, 2, 2),
     HistoryRequest(1, << >>, <<"c","o","n","t","r","a","c","t">>, "Closed", None, None, 1, 1),
     HistoryRequest(1, << >>, << >>, "Active", None, None, 1, 1),
     HistoryRequest(1, <<"T","O","R","T">>, << >>, "", 2, 2, 1, 1),
     HistoryRequest(1, << >>, << >>, "", None, 1, 1, 2),
     HistoryRequest(2, << >>, << >>, "", None, None, 1, 1),
     HistoryRequest(MissingJudge, << >>, << >>, "", None, None, 1, 1)}

\* The requests of case_prediction_advanced (case_type, judge_id)
PredictionRequests ==
    {HistoryRequest(j, << >>, t, "", None, None, None, None) :
        j \in JudgeIds \cup {None},
        t \in {<< >>, <<"c","o","n","t","r","a","c","t">>}}

\* A call, with what it met outside the store: the day, the order in which
\* the store returned unordered rows, and the answer of CourtListener
HistoryCall(op, request, today, rows, upstream, response) ==
    AnalyticsCall(op, request.judge, request.case_type, response.status,
                  [request |-> request, today |-> today, rows |-> rows,
                   upstream |-> upstream, response |-> response])



\* A call of JudgeAnalyticsService.get_case_history
GetCaseHistory ==
    /\ \E req \in ServiceRequests :
          \E rows \in query_orders(history_dockets(req.judge, req.case_type,
                                                   req.case_status)) :
              analytics' = HistoryCall("get_case_history", req, None, rows, NoUpstream,
                                       get_case_history(req.judge, req.case_type,
                                                        req.case_status, rows))
    /\ UNCHANGED <<configVars, storeVars, search, network, ingest>>

\* A request of views.judge_case_history
JudgeCaseHistory ==
    /\ \E req \in ViewRequests, today \in Todays :
          analytics' = HistoryCall("judge_case_history", req, today, << >>, NoUpstream,
                                   judge_case_history(req.judge, req.case_type,
                                                      req.case_status, req.date_from,
                                                      req.date_to, today))
    /\ UNCHANGED <<configVars, storeVars, search, network, ingest>>

\* A request of JudgeViewSet.case_history: get_object, the sync with
\* CourtListener, then the listing
CaseHistory ==
    /\ \E req \in ViewSetRequests, today \in Todays, upstream \in Upstreams :
          /\ opinions' = IF req.judge \in DOMAIN judges
                         THEN sync_judge_cases_from_courtlistener(opinions, upstream)
                         ELSE opinions
          /\ analytics' = HistoryCall("case_history", req, today, << >>, upstream,
                                      case_history(req.judge, req.search, req.case_type,
                                                   req.case_status, req.date_from,
                                                   req.date_to, req.limit, req.page,
                                                   today))
    /\ UNCHANGED <<configVars, courts, judges, dockets, clusters, relations,
                   caseOutcomes, citations, search, network, ingest>>

\* A request of views.case_prediction_advanced
CasePredictionAdvanced ==
    /\ \E req \in PredictionRequests :
          analytics' = HistoryCall("case_prediction_advanced", req, None, << >>,
                                   NoUpstream,
                                   case_prediction_advanced(req.case_type, req.judge))
    /\ UNCHANGED <<configVars, storeVars, search, network, ingest>>

-----------------------------------------------------------------------------
(* Comprehensive search: api/ai_services.py comprehensive_search and the
   semantic_search endpoint of api/views.py *)

\* The largest max_results of a comprehensive search
MaxComprehensiveResults == 4

COMPREHENSIVE_DEFAULT_MAX_RESULTS == 50

\* EmbeddingService.comprehensive_search after generate_embedding answered e:
\* the opinions of semantic_search_opinions with max_results // 2, and the
\* two lists the method leaves empty
comprehensive_search(e, query, filters, max_results, sqlFails, rows, fetched) ==
    LET r == search_opinions(e, query, filters, max_results \div 2, sqlFails, rows,
                             fetched)
    IN  [status |-> r.status, mode |-> r.mode, query |-> query,
         opinions |-> r.result, cases |-> << >>, judges |-> << >>]

\* SearchQuerySerializer.max_results: max_value
SERIALIZER_MAX_RESULTS == 100

\* views.semantic_search: the serializer rejects a blank query and a
\* max_results above its max_value; the view
\* passes max_results in the place of filters, so the search runs with the
\* default max_results and calls .get on a number (AttributeError) unless
\* that number is 0
semantic_search(e, query, max_results, sqlFails, rows, fetched) ==
    IF query = << >> \/ max_results > SERIALIZER_MAX_RESULTS
    THEN [status |-> "400", total_results |-> 0, results |-> << >>,
          opinions |-> << >>, cases |-> << >>, judges |-> << >>,
          breakdown |-> [opinions |-> 0, cases |-> 0, judges |-> 0]]
    ELSE IF max_results # 0
    THEN [status |-> "raised", total_results |-> 0, results |-> << >>,
          opinions |-> << >>, cases |-> << >>, judges |-> << >>,
          breakdown |-> [opinions |-> 0, cases |-> 0, judges |-> 0]]
    ELSE LET r == comprehensive_search(e, query, NoFilters,
                                       COMPREHENSIVE_DEFAULT_MAX_RESULTS, sqlFails,
                                       rows, fetched)
             all_results == r.opinions \o r.cases \o r.judges
         IN  IF r.status = "raised"
             THEN [status |-> "raised", total_results |-> 0, results |-> << >>,
                   opinions |-> << >>, cases |-> << >>, judges |-> << >>,
                   breakdown |-> [opinions |-> 0, cases |-> 0, judges |-> 0]]
             ELSE [status |-> "200",
                   total_results |-> Len(all_results),
                   results |-> all_results,
                   opinions |-> r.opinions, cases |-> r.cases, judges |-> r.judges,
                   breakdown |-> [opinions |-> Len(r.opinions),
                                  cases |-> Len(r.cases),
                                  judges |-> Len(r.judges)]]

\* The filter dictionaries of the comprehensive searches
ComprehensiveFilters == {NoFilters, Filters("federal", "", None, None, << >>)}

\* The queries of the comprehensive searches: none, a text of the sample
\* opinions and of the name of docket 1, and a part of the name of judge 1
ComprehensiveQueries == {<< >>, <<"B">>, <<"k","a">>}

\* The stores of opinions of the comprehensive searches
ComprehensiveOpinions ==
    {[o \in {1, 2, 3} |->
         CASE o = 1 -> OpinionRow(1, 1, <<"b","c">>, 2, 2)
           [] o = 2 -> OpinionRow(2, 1, <<"b","c">>, 1, second)
           [] o = 3 -> OpinionRow(3, None, third, 1, 1)] :
        second \in {None, 2}, third \in {<< >>, <<"b","c">>}}

\* the stored rows a search with this embedding and these filters fetches
search_rows(e, sqlFails, filters, max_results) ==
    IF ~e.raised /\ e.value # None /\ ~sqlFails
    THEN vector_rows(e.value, filters, max_results)
    ELSE {<< >>}

\* A call of EmbeddingService.comprehensive_search
ComprehensiveSearch ==
    /\ search.op = "none"
    /\ \E query \in ComprehensiveQueries, filters \in ComprehensiveFilters,
          max_results \in 0..MaxComprehensiveResults, env \in Environments :
          LET e == generate_embedding(apiKey, env.remote, env.vec)
          IN  \E rows \in search_rows(e, env.sqlFails, filters, max_results \div 2) :
              \E fetched \in Orderings(Range(rows)) :
                  LET r == comprehensive_search(e, query, filters, max_results,
                                                env.sqlFails, rows, fetched)
                  IN  search' =
                          [NoCall EXCEPT !.op = "comprehensive_search",
                                         !.query = query,
                                         !.filters = filters,
                                         !.max_results = max_results,
                                         !.embedding = e.value,
                                         !.attempts = e.attempts,
                                         !.remote = env.remote,
                                         !.rows = rows,
                                         !.fetched = fetched,
                                         !.status = r.status,
                                         !.mode = r.mode,
                                         !.result = r]
    /\ UNCHANGED <<configVars, storeVars, analytics, network, ingest>>

\* A request of views.semantic_search
SemanticSearch ==
    /\ search.op = "none"
    /\ \E query \in ComprehensiveQueries,
          max_results \in {0, MaxComprehensiveResults, SERIALIZER_MAX_RESULTS + 1},
          env \in Environments :
          LET e == generate_embedding(apiKey, env.remote, env.vec)
          IN  \E rows \in (IF query # << >> /\ max_results = 0
                           THEN search_rows(e, env.sqlFails, NoFilters,
                                            COMPREHENSIVE_DEFAULT_MAX_RESULTS \div 2)
                           ELSE {<< >>}) :
              \E fetched \in Orderings(Range(rows)) :
                  LET r == semantic_search(e, query, max_results, env.sqlFails, rows,
                                           fetched)
                  IN  search' =
                          [NoCall EXCEPT !.op = "semantic_search",
                                         !.query = query,
                                         !.max_results = max_results,
                                         !.rows = rows,
                                         !.fetched = fetched,
                                         !.status = r.status,
                                         !.result = r]
    /\ UNCHANGED <<configVars, storeVars, analytics, network, ingest>>

-----------------------------------------------------------------------------
(* The CourtListener client: data_ingestion/courtlistener_service.py *)

\* The most attempts a request is allowed in the model
MaxRetries == 3

\* What one session.get of a request can meet: an HTTP status, no connection
\* (or a timeout), or a 200 whose body is not JSON
AttemptOutcomes == {"200", "404", "500", "502", "503", "504", "connection", "bad_json"}

RETRIED_STATUS == {"502", "503", "504"}

HttpErrors == {"404", "500", "502", "503", "504"}

\* The attempts of _make_request from the zero-based attempt on. outcomes[k]
\* is what the k-th session.get meets.  response.json() of a body that is not
\* JSON raises an error that is a RequestException in some releases of
\* requests and a plain ValueError in others (json_is_request_error).
RECURSIVE attempts_never_retry(_, _, _, _)
attempts_never_retry(outcomes, max_retries, attempt, json_is_request_error) ==
    IF attempt >= max_retries
    THEN [status |-> "raised", error |-> "unexpected", attempts |-> attempt, value |-> None]
    ELSE IF outcomes[attempt + 1] = "200"
    THEN [status |-> "returned", error |-> "", attempts |-> attempt + 1, value |-> attempt + 1]
    ELSE [status |-> "raised", error |-> outcomes[attempt + 1], attempts |-> attempt + 1, value |-> None]

RECURSIVE attempts_from(_, _, _, _)
attempts_from(outcomes, max_retries, attempt, json_is_request_error) ==
    IF attempt >= max_retries
    THEN [status |-> "raised", error |-> "unexpected", attempts |-> attempt, value |-> None]
    ELSE LET o == outcomes[attempt + 1]
             retried == \/ o \in RETRIED_STATUS
                        \/ o = "connection"
                        \/ o = "bad_json" /\ json_is_request_error
         IN  IF o = "200"
             THEN [status |-> "returned", error |-> "", attempts |-> attempt + 1,
                   value |-> attempt + 1]
             ELSE IF retried /\ attempt < max_retries - 1
             THEN attempts_from(outcomes, max_retries, attempt + 1, json_is_request_error)
             ELSE [status |-> "raised", error |-> o, attempts |-> attempt + 1,
                   value |-> None]

\* CourtListenerAPIService._make_request
make_request(outcomes, max_retries, json_is_request_error) ==
    attempts_from(outcomes, max_retries, 0, json_is_request_error)

\* The caller takes the outcome of the last call of the client
RespondIngest ==
    /\ ingest.op # "none"
    /\ ingest' = NoIngest
    /\ UNCHANGED <<configVars, storeVars, search, analytics, network>>

\* A call of _make_request
MakeRequest ==
    /\ ingest.op = "none"
    /\ \E outcomes \in [1..MaxRetries -> AttemptOutcomes], max_retries \in 0..MaxRetries,
          json_is_request_error \in BOOLEAN :
          LET r == make_request(outcomes, max_retries, json_is_request_error)
          IN  ingest' = [op |-> "make_request", outcomes |-> outcomes,
                         max_retries |-> max_retries,
                         json_is_request_error |-> json_is_request_error,
                         status |-> r.status, error |-> r.error,
                         attempts |-> r.attempts, value |-> r.value]
    /\ UNCHANGED <<configVars, storeVars, search, analytics, network>>

\* The upstream listings of the model: at most MaxPages pages of at most
\* MaxPageSize results each
MaxPages == 3

MaxPageSize == 2

\* The most results a caller of _paginate asks for
MaxPaginateResults == 4

\* The results of page k when it holds n of them: the items are numbered
\* through the listing
page_results(k, n) == [i \in 1..n |-> (k - 1) * MaxPageSize + i]

\* The listings: every page with its results and whether it has a next link
Listings ==
    UNION {[1..l -> [size : 0..MaxPageSize, next : BOOLEAN]] : l \in 1..MaxPages}

\* The JSON of page k of a listing
page_data(pages, k) ==
    [results |-> page_results(k, pages[k].size), next |-> pages[k].next]

\* The loop of _paginate from the request of a page on.  failing is the page
\* whose _make_request raises (0: none); a page past the listing is a 404.
\* limited is the test `max_results and ...` with max_results None or a number.
RECURSIVE paginate_from(_, _, _, _, _, _)
paginate_from(pages, given, max_results, failing, page, yielded) ==
    IF page = failing \/ page > Len(pages)
    THEN [status |-> "raised", yielded |-> yielded, requests |-> page]
    ELSE LET data == page_data(pages, page)
             limited == given /\ max_results # 0
             room == IF limited THEN Max(max_results - Len(yielded), 0)
                     ELSE Len(data.results)
         IN  IF data.results = << >>
             THEN [status |-> "exhausted", yielded |-> yielded, requests |-> page]
             ELSE IF room < Len(data.results)
             THEN [status |-> "returned",
                   yielded |-> yielded \o Prefix(data.results, room),
                   requests |-> page]
             ELSE IF ~data.next
             THEN [status |-> "exhausted", yielded |-> yielded \o data.results,
                   requests |-> page]
             ELSE paginate_from(pages, given, max_results, failing, page + 1,
                                yielded \o data.results)

\* CourtListenerAPIService._paginate: params['page'] = 1, whatever page the
\* caller put into params
paginate(pages, given, max_results, failing) ==
    paginate_from(pages, given, max_results, failing, 1, << >>)

\* A call of _paginate consumed to its end (fetch_judges, fetch_opinions, ...)
Paginate ==
    /\ ingest.op = "none"
    /\ \E pages \in Listings, given \in BOOLEAN, max_results \in 0..MaxPaginateResults,
          failing \in 0..MaxPages :
          /\ ~given => max_results = 0
          /\ LET r == paginate(pages, given, max_results, failing)
             IN  ingest' = [op |-> "paginate", pages |-> pages, given |-> given,
                            max_results |-> max_results, failing |-> failing,
                            status |-> r.status, yielded |-> r.yielded,
                            requests |-> r.requests]
    /\ UNCHANGED <<configVars, storeVars, search, analytics, network>>

-----------------------------------------------------------------------------
(* The deep-batch ingestion of judges:
   data_ingestion/management/commands/fetch_judges_deep_batch.py *)

\* The largest --limit of a run, the most judges stored before a run, and
\* the value at which the model stops counting the rounds of a run
MaxBatchLimit == 2

MaxBatchJudges == 3

MaxBatchCounter == 3

\* fetch_judges(max_results=20, **page_filters)
BATCH_PAGE_RESULTS == 20

\* The listings of a finite upstream: every page but the last has a next link
\* and only a listing of no judge at all has an empty page
BatchListings ==
    {pages \in Listings :
        /\ \A k \in 1..Len(pages) : pages[k].next = (k < Len(pages))
        /\ \A k \in 1..Len(pages) : pages[k].size = 0 => Len(pages) = 1}

\* The sets of judges whose ingest_judge_complete raises during a run
BatchFailures == {{}, {2}}

\* The row process_judge stores for a judge of the listing
batch_judge_row(judge_id) == [full_name |-> <<"J">>, biography |-> << >>]

\* The judge stores a run starts from
BatchStores ==
    {[j \in S |-> batch_judge_row(j)] : S \in SUBSET (1..MaxBatchJudges)}

\* The for loop over judges_page from its k-th judge on: b holds new_count,
\* skipped_count, updated_count, existing (existing_judge_ids) and ingested
\* (the judges ingest_judge_complete stored)
RECURSIVE process_page(_, _, _, _, _, _)
process_page(judges_page, k, limit, force_update, failing, b) ==
    IF k > Len(judges_page) THEN b
    ELSE LET judge_id == judges_page[k]
             is_update == judge_id \in b.existing
         IN  IF is_update /\ ~force_update
             THEN process_page(judges_page, k + 1, limit, force_update, failing,
                               [b EXCEPT !.skipped_count = @ + 1])
             ELSE IF judge_id \in failing
             THEN process_page(judges_page, k + 1, limit, force_update, failing, b)
             ELSE IF is_update
             THEN process_page(judges_page, k + 1, limit, force_update, failing,
                               [b EXCEPT !.updated_count = @ + 1,
                                         !.ingested = @ \cup {judge_id}])
             ELSE LET n == [b EXCEPT !.new_count = @ + 1,
                                     !.existing = @ \cup {judge_id},
                                     !.ingested = @ \cup {judge_id}]
                  IN  IF n.new_count >= limit THEN n
                      ELSE process_page(judges_page, k + 1, limit, force_update,
                                        failing, n)

\* The judges one round of the while loop fetches: _paginate sets
\* params['page'] = 1, so the page the command put into the filters is lost and
\* every round gets the first BATCH_PAGE_RESULTS judges of the listing
fetch_judges_page(pages, page) == paginate(pages, TRUE, BATCH_PAGE_RESULTS, 0)

\* The counters saturate: the counts of skipped and updated judges and the
\* page number only appear in the messages of the command.  The field round
\* of a run alternates with every round of the loop, so that a round taken
\* with saturated counters is still a step.
capped(n) == Min(n, MaxBatchCounter)

\* Command.handle up to the while loop
BatchStart ==
    /\ ingest.op = "none"
    /\ \E limit \in 0..MaxBatchLimit, force_update \in BOOLEAN, pages \in BatchListings,
          failing \in BatchFailures :
          ingest' = [op |-> "deep_batch", pc |-> "loop", status |-> "running",
                     limit |-> limit, force_update |-> force_update,
                     pages |-> pages, failing |-> failing,
                     existing |-> DOMAIN judges,
                     new_count |-> 0, skipped_count |-> 0, updated_count |-> 0,
                     page |-> 1, round |-> 0]
    /\ UNCHANGED <<configVars, storeVars, search, analytics, network>>

\* One test of `while new_count < limit` and, when it holds, one round of the
\* loop: the fetch of a page (which can raise), the judges of the page, the
\* test of the limit and the move to the next page
BatchPage ==
    /\ ingest.op = "deep_batch"
    /\ ingest.pc = "loop"
    /\ IF ingest.new_count >= ingest.limit
       THEN /\ ingest' = [ingest EXCEPT !.pc = "done", !.status = "complete"]
            /\ UNCHANGED judges
       ELSE \E fetch_raises \in BOOLEAN :
               LET fetched == fetch_judges_page(ingest.pages, ingest.page)
                   b == process_page(fetched.yielded, 1, ingest.limit,
                                     ingest.force_update, ingest.failing,
                                     [new_count |-> ingest.new_count,
                                      skipped_count |-> ingest.skipped_count,
                                      updated_count |-> ingest.updated_count,
                                      existing |-> ingest.existing,
                                      ingested |-> {}])
               IN  IF fetch_raises \/ fetched.status = "raised"
                   THEN /\ ingest' = [ingest EXCEPT !.pc = "done",
                                                    !.status = "critical"]
                        /\ UNCHANGED judges
                   ELSE IF fetched.yielded = << >>
                   THEN /\ ingest' = [ingest EXCEPT !.pc = "done",
                                                    !.status = "complete"]
                        /\ UNCHANGED judges
                   ELSE /\ ingest' =
                               [ingest EXCEPT
                                   !.new_count = b.new_count,
                                   !.skipped_count = capped(b.skipped_count),
                                   !.updated_count = capped(b.updated_count),
                                   !.existing = b.existing,
                                   !.pc = IF b.new_count >= ingest.limit
                                          THEN "done" ELSE "loop",
                                   !.status = IF b.new_count >= ingest.limit
                                              THEN "complete" ELSE "running",
                                   !.page = IF b.new_count >= ingest.limit THEN @
                                            ELSE capped(@ + 1),
                                   !.round = 1 - @]
                        /\ judges' = [j \in DOMAIN judges \cup b.ingested |->
                                         IF j \in b.ingested THEN batch_judge_row(j)
                                         ELSE judges[j]]
    /\ UNCHANGED <<configVars, courts, dockets, clusters, opinions, relations,
                   caseOutcomes, citations, search, analytics, network>>

-----------------------------------------------------------------------------
(* Ingestion of judges and opinions: data_ingestion/data_processors.py
   process_judge and process_opinion.  The Judge, OpinionCluster and Opinion
   rows of these runs are kept under their unique judge_id, cluster_id and
   opinion_id *)

\* The store with the row of a key written
put(store, key, row) ==
    [k \in DOMAIN store \cup {key} |-> IF k = key THEN row ELSE store[k]]

\* generate_synthetic_bio for a judge whose payload names no education and
\* no position
synthetic_bio(full_name) ==
    full_name \o <<" ","i","s"," ","a"," ","j","u","d","i","c","i","a","l"," ",
                   "o","f","f","i","c","e","r"," ","w","i","t","h"," ","t","h","e"," ",
                   "c","o","u","r","t"," ","s","y","s","t","e","m",".">>

\* DataProcessor.process_judge after generate_embedding answered embedding,
\* as [judges, row, created]: update_or_create on judge_id, the embedding
\* among the defaults only when there is one
process_judge_writes_embedding(store, data, embedding) ==
    LET full_name == join(SelectSeq(<<data.name_first, data.name_last>>,
                                    LAMBDA part : part # << >>))
        bio == IF data.biography # << >> THEN data.biography
               ELSE synthetic_bio(full_name)
    IN  [judges |-> put(store, data.id,
                        [full_name |-> full_name, biography |-> bio,
                         embedding |-> embedding]),
         row |-> data.id,
         created |-> data.id \notin DOMAIN store]

process_judge(store, data, embedding) ==
    LET full_name == join(SelectSeq(<<data.name_first, data.name_last>>,
                                    LAMBDA part : part # << >>))
        bio == IF data.biography # << >> THEN data.biography
               ELSE synthetic_bio(full_name)
        kept == IF embedding # None THEN embedding
                ELSE IF data.id \in DOMAIN store THEN store[data.id].embedding
                ELSE None
    IN  [judges |-> put(store, data.id,
                        [full_name |-> full_name, biography |-> bio,
                         embedding |-> kept]),
         row |-> data.id,
         created |-> data.id \notin DOMAIN store]

\* A reference of a payload to another record: a URL that ends in the id, a
\* text without a '/', the number itself, or none
Reference(kind, id) == [kind |-> kind, id |-> id]

NoReference == Reference("none", None)

\* ref.split('/')[-2] if isinstance(ref, str) else ref: IndexError for a text
\* without a '/'
reference_id(ref) ==
    IF ref.kind = "text" THEN [id |-> None, raised |-> TRUE]
    ELSE [id |-> ref.id, raised |-> FALSE]

\* DataProcessor.process_opinion, as [opinions, row, created, raised]: row is
\* the opinion_id of the returned opinion, None when the cluster is not
\* found.  cluster is a stored cluster or None, cluster_id an id or None;
\* answer is what generate_embedding gives for a text
process_opinion(cluster_store, judge_store, store, data, cluster, cluster_id, answer) ==
    LET ref == reference_id(data.cluster)
        found == IF cluster # None THEN cluster
                 ELSE IF cluster_id # None
                 THEN (IF cluster_id \in DOMAIN cluster_store THEN cluster_id ELSE None)
                 ELSE IF data.cluster = NoReference THEN None
                 ELSE IF ref.raised THEN None
                 ELSE IF ref.id \in DOMAIN cluster_store THEN ref.id ELSE None
        author == IF data.author # None /\ data.author \in DOMAIN judge_store
                  THEN data.author ELSE None
        embedding == IF data.plain_text # << >> THEN answer ELSE None
        kept == IF embedding # None THEN embedding
                ELSE IF data.id \in DOMAIN store THEN store[data.id].embedding
                ELSE None
    IN  IF cluster = None /\ cluster_id = None /\ data.cluster # NoReference
           /\ ref.raised
        THEN [opinions |-> store, row |-> None, created |-> FALSE, raised |-> TRUE]
        ELSE IF found = None
        THEN [opinions |-> store, row |-> None, created |-> FALSE, raised |-> FALSE]
        ELSE [opinions |-> put(store, data.id,
                               [cluster |-> found, author |-> author,
                                plain_text |-> data.plain_text,
                                date_filed |-> parse_date(data.date_filed),
                                embedding |-> kept]),
              row |-> data.id,
              created |-> data.id \notin DOMAIN store,
              raised |-> FALSE]

\* The judge payloads of the runs: with a biography and without
JudgePayloads ==
    {[id |-> 1, name_first |-> <<"A">>, name_last |-> <<"B">>, biography |-> bio] :
        bio \in {<< >>, <<"b">>}}

\* The opinion payloads of the runs: the cluster as a URL of a stored one, of
\* one that is not stored, as a text that is no URL, and none; the author
\* stored, not stored and none; with a text and without
OpinionPayloads ==
    {[id |-> 1, cluster |-> c, author |-> a, plain_text |-> t,
      date_filed |-> DateTexts.filed] :
        c \in {Reference("url", 1), Reference("url", 9), Reference("text", 1),
               NoReference},
        a \in {None, 1, 9},
        t \in {<< >>, <<"b","c">>}}

\* What the openai import and the embedding provider do during one call
IngestEnvironments ==
    {[openai |-> TRUE, remote |-> "ok", vec |-> 1, fetch |-> "ok"],
     [openai |-> TRUE, remote |-> "ok", vec |-> 2, fetch |-> "ok"],
     [openai |-> TRUE, remote |-> "network_error", vec |-> None, fetch |-> "error"],
     [openai |-> FALSE, remote |-> "ok", vec |-> 1, fetch |-> "ok"]}

ProcessJudge ==
    /\ ingest.op = "none"
    /\ \E data \in JudgePayloads, env \in IngestEnvironments :
          LET e == ingest_generate_embedding(env.openai, apiKey, env.remote, env.vec)
              r == process_judge(judges, data, e.value)
          IN  /\ judges' = r.judges
              /\ ingest' = [op |-> "process_judge", id |-> data.id,
                            embedding |-> e.value, row |-> r.row,
                            created |-> r.created, raised |-> FALSE]
    /\ UNCHANGED <<configVars, courts, dockets, clusters, opinions, relations,
                   caseOutcomes, citations, search, analytics, network>>

\* A call of process_opinion with one of the payloads, for one of the
\* clusters and cluster ids given (None: not passed), in one of the
\* environments
ProcessOpinionWith(payloads, given_clusters, given_ids, environments) ==
    /\ ingest.op = "none"
    /\ \E data \in payloads, cluster \in given_clusters,
          cluster_id \in given_ids, env \in environments :
          LET e == ingest_generate_embedding(env.openai, apiKey, env.remote, env.vec)
              r == process_opinion(clusters, judges, opinions, data, cluster,
                                   cluster_id, e.value)
          IN  /\ opinions' = r.opinions
              /\ ingest' = [op |-> "process_opinion", id |-> data.id,
                            reference |-> data.cluster, given |-> cluster,
                            given_id |-> cluster_id,
                            embedding |-> IF data.plain_text # << >> THEN e.value
                                          ELSE None,
                            row |-> r.row, created |-> r.created,
                            raised |-> r.raised]
    /\ UNCHANGED <<configVars, courts, judges, dockets, clusters, relations,
                   caseOutcomes, citations, search, analytics, network>>

ProcessOpinion ==
    ProcessOpinionWith(OpinionPayloads, {None, 1}, {None, 1, 9}, IngestEnvironments)

\* The re-ingestion of one docket
ReingestDocket ==
    /\ ingest.op = "none"
    /\ ProcessDocketWith({docket_payload(1, <<"courts", "scotus", "">>, DocketBodies[1])},
                         {None}, IngestEnvironments)

-----------------------------------------------------------------------------
(* Judge-docket relations: DataProcessor.process_judge_docket_relation of
   data_ingestion/data_processors.py over the JudgeDocketRelation table *)

\* The relation table is filled up to this many rows
MaxRelationRows == 3

\* The stored judges and dockets whose instances are passed to the call
RelationJudges == {1}

RelationDockets == {1, 2}

RelationRoles == {"author", "panel"}

\* The rows of one (judge, docket, role) triple
triple_rows(rows, judge, docket, role) ==
    {r \in rows : r.judge = judge /\ r.docket = docket /\ r.role = role}

\* the next value of the table's AutoField
next_relation_id(rows) ==
    IF rows = {} THEN 1
    ELSE (CHOOSE r \in rows : \A o \in rows : o.id <= r.id).id + 1

\* JudgeDocketRelation.objects.update_or_create(judge, docket, role,
\* defaults={'outcome': outcome}): what the call is not
process_judge_docket_relation_overwrites(rows, judge, docket, role, outcome) ==
    LET found == triple_rows(rows, judge, docket, role)
        new   == [id |-> next_relation_id(rows), judge |-> judge, docket |-> docket,
                  role |-> role, outcome |-> outcome]
    IN  IF found # {}
        THEN LET old == CHOOSE r \in found : TRUE
                 row == [old EXCEPT !.outcome = outcome]
             IN  [rows |-> (rows \ {old}) \cup {row}, row |-> <<row>>, created |-> FALSE]
        ELSE [rows |-> rows \cup {new}, row |-> <<new>>, created |-> TRUE]

\* DataProcessor.process_judge_docket_relation, as [rows, row, created]:
\* JudgeDocketRelation.objects.get_or_create(judge, docket, role,
\* defaults={'outcome': outcome}); the relation is returned
process_judge_docket_relation(rows, judge, docket, role, outcome) ==
    LET found == triple_rows(rows, judge, docket, role)
        new   == [id |-> next_relation_id(rows), judge |-> judge, docket |-> docket,
                  role |-> role, outcome |-> outcome]
    IN  IF found # {}
        THEN [rows |-> rows, row |-> <<CHOOSE r \in found : TRUE>>, created |-> FALSE]
        ELSE [rows |-> rows \cup {new}, row |-> <<new>>, created |-> TRUE]

\* One call of process_judge_docket_relation
ProcessJudgeDocketRelation ==
    /\ Cardinality(relations) < MaxRelationRows
    /\ \E judge \in RelationJudges, docket \in RelationDockets, role \in RelationRoles,
          k \in DOMAIN OutcomeSamples :
        LET r == process_judge_docket_relation(relations, judge, docket, role,
                                               OutcomeSamples[k])
        IN  /\ relations' = r.rows
            /\ ingest' = [op |-> "process_judge_docket_relation", judge |-> judge,
                          docket |-> docket, role |-> role,
                          outcome |-> OutcomeSamples[k], row |-> r.row,
                          created |-> r.created, raised |-> FALSE]
    /\ UNCHANGED <<configVars, courts, judges, dockets, clusters, opinions,
                   caseOutcomes, citations, search, analytics, network>>

-----------------------------------------------------------------------------
(* Ingestion of opinion clusters: DataProcessor.process_opinion_cluster of
   data_ingestion/data_processors.py, and the ingestion of a docket, its
   cluster, its opinions and their citations into empty tables *)

\* docket.outcome_status = disposition[:100]
OUTCOME_STATUS_LENGTH == 100

\* docket.precedential_status = precedential[:50]
PRECEDENTIAL_STATUS_LENGTH == 50

\* The citation table of these runs is filled up to this many rows
MaxIntegrityCitations == 1

\* The docket of a cluster, as [docket, raised]: the docket passed, or the
\* stored docket the payload refers to; None when there is none
cluster_docket(docket_store, data, docket) ==
    IF docket # None THEN [docket |-> docket, raised |-> FALSE]
    ELSE IF data.docket = NoReference THEN [docket |-> None, raised |-> FALSE]
    ELSE IF reference_id(data.docket).raised THEN [docket |-> None, raised |-> TRUE]
    ELSE LET found == docket_rows(docket_store, reference_id(data.docket).id)
         IN  [docket |-> IF found # {} THEN CHOOSE d \in found : TRUE ELSE None,
              raised |-> FALSE]

\* The docket row after the cluster filled in what it lacked: the outcome
\* status, the filing date and the precedential status, and the decision days
\* when a field was filled and both dates are known
docket_from_cluster(row, data) ==
    LET disposition == data.disposition
        cluster_date == parse_date(data.date_filed)
        precedential == data.precedential_status
        with_outcome == disposition # << >> /\ row.outcome_status = << >>
        with_date == cluster_date # None /\ row.date_filed = None
        with_precedential == precedential # << >> /\ row.precedential_status = << >>
        filled == [row EXCEPT
                      !.outcome_status = IF with_outcome
                                         THEN Prefix(disposition, OUTCOME_STATUS_LENGTH)
                                         ELSE @,
                      !.date_filed = IF with_date THEN cluster_date ELSE @,
                      !.precedential_status =
                          IF with_precedential
                          THEN Prefix(precedential, PRECEDENTIAL_STATUS_LENGTH)
                          ELSE @]
    IN  IF ~(with_outcome \/ with_date \/ with_precedential) THEN row
        ELSE IF filled.date_filed # None /\ filled.date_terminated # None
        THEN [filled EXCEPT !.decision_days = filled.date_terminated - filled.date_filed]
        ELSE filled

\* The judges of the panel references that are stored
panel_judges(judge_store, panel) ==
    {reference_id(panel[k]).id : k \in {i \in DOMAIN panel :
        /\ ~reference_id(panel[i]).raised
        /\ reference_id(panel[i]).id \in DOMAIN judge_store}}

\* DataProcessor.process_opinion_cluster, as [dockets, clusters, row, created,
\* raised]: row is the cluster_id of the returned cluster, None when there is
\* no docket.  The call is one transaction: a panel reference that cannot be
\* split raises after the writes and undoes them
process_opinion_cluster(docket_store, judge_store, store, data, docket) ==
    LET c == cluster_docket(docket_store, data, docket)
        panel == IF data.id \in DOMAIN store THEN store[data.id].panel ELSE {}
    IN  IF c.raised \/ c.docket = None
        THEN [dockets |-> docket_store, clusters |-> store, row |-> None,
              created |-> FALSE, raised |-> c.raised]
        ELSE IF \E k \in DOMAIN data.panel : reference_id(data.panel[k]).raised
        THEN [dockets |-> docket_store, clusters |-> store, row |-> None,
              created |-> FALSE, raised |-> TRUE]
        ELSE [dockets |-> [docket_store EXCEPT
                              ![c.docket] = docket_from_cluster(@, data)],
              clusters |-> put(store, data.id,
                               [docket |-> c.docket,
                                date_filed |-> parse_date(data.date_filed),
                                panel |-> panel \cup panel_judges(judge_store, data.panel)]),
              row |-> data.id,
              created |-> data.id \notin DOMAIN store,
              raised |-> FALSE]

\* The cluster payloads of the runs: the docket as a URL of docket 1, of a
\* docket that is never stored, as a text that is no URL, and none; a
\* disposition or none; a panel of a stored judge, of a reference that is no
\* URL, and none
ClusterPayloads ==
    {[id |-> 1, docket |-> d, disposition |-> o, date_filed |-> DateTexts.filed,
      precedential_status |-> <<"P">>, panel |-> p] :
        d \in {Reference("url", 1), Reference("url", 9), Reference("text", 1),
               NoReference},
        o \in {<< >>, Granted},
        p \in {<< >>, <<Reference("url", 1)>>, <<Reference("text", 1)>>}}

\* One call of process_opinion_cluster, with a stored docket or without
ProcessOpinionCluster ==
    /\ ingest.op = "none"
    /\ \E data \in ClusterPayloads, docket \in {None} \cup DOMAIN dockets :
          LET r == process_opinion_cluster(dockets, judges, clusters, data, docket)
          IN  /\ dockets' = r.dockets
              /\ clusters' = r.clusters
              /\ ingest' = [op |-> "process_opinion_cluster", id |-> data.id,
                            reference |-> data.docket, given |-> docket,
                            row |-> r.row, created |-> r.created,
                            raised |-> r.raised]
    /\ UNCHANGED <<configVars, courts, judges, opinions, relations, caseOutcomes,
                   citations, search, analytics, network>>

\* The docket payloads of these runs: docket 1 under every court URL
IntegrityDockets ==
    {docket_payload(1, <<"courts", "scotus", "">>, DocketBodies[1]),
     docket_payload(1, <<"courts", "new", "">>, DocketBodies[2]),
     docket_payload(1, <<"scotus">>, DocketBodies[1]),
     docket_payload(1, << >>, DocketBodies[2])}

\* The opinion payloads of these runs: opinions 1 and 2 under every cluster
\* reference
IntegrityOpinions ==
    {[id |-> id, cluster |-> c, author |-> None, plain_text |-> <<"b","c">>,
      date_filed |-> DateTexts.filed] :
        id \in {1, 2},
        c \in {Reference("url", 1), Reference("url", 9), Reference("text", 1),
               NoReference}}

\* The court lookup answers or fails; the embedding provider answers
IntegrityEnvironments ==
    {[openai |-> TRUE, remote |-> "ok", vec |-> 1, fetch |-> "ok"],
     [openai |-> TRUE, remote |-> "ok", vec |-> 1, fetch |-> "error"]}

IntegrityDocket ==
    /\ ingest.op = "none"
    /\ ProcessDocketWith(IntegrityDockets, {None}, IntegrityEnvironments)

IntegrityOpinion ==
    ProcessOpinionWith(IntegrityOpinions, {None}, {None, 1},
                       {[openai |-> TRUE, remote |-> "ok", vec |-> 1, fetch |-> "ok"]})

IntegrityCitation ==
    /\ ingest.op = "none"
    /\ ProcessCitationWith({1, 2, 3}, {1}, MaxIntegrityCitations)

-----------------------------------------------------------------------------
(* The deep fetch of one judge: IngestionManager.ingest_judge_complete of
   data_ingestion/ingestion_manager.py *)

\* The judge has at most this many opinions upstream
MaxJudgeOpinions == 2

\* What can be the matter with an opinion of the feed
OpinionKinds ==
    {"good", "no_cluster", "bad_cluster_ref", "cluster_error", "no_docket",
     "docket_error", "bad_court", "no_court", "bad_panel"}

\* Opinion k of the feed with what CourtListener answers for its cluster and
\* its docket: the opinion payload, the answer of clusters/<id> and of
\* fetch_docket_by_id (None: the request raises)
feed_item(kind, k) ==
    [opinion |-> [id |-> k,
                  cluster |-> CASE kind = "no_cluster" -> NoReference
                                [] kind = "bad_cluster_ref" -> Reference("text", k)
                                [] OTHER -> Reference("url", k),
                  author |-> 1, plain_text |-> <<"b","c">>,
                  date_filed |-> DateTexts.filed],
     cluster_fetch |-> IF kind = "cluster_error" THEN "error" ELSE "ok",
     cluster |-> [id |-> k,
                  docket |-> IF kind = "no_docket" THEN NoReference
                             ELSE Reference("url", k),
                  disposition |-> Granted, date_filed |-> DateTexts.filed,
                  precedential_status |-> <<"P">>,
                  panel |-> IF kind = "bad_panel" THEN <<Reference("text", 1)>>
                            ELSE << >>],
     docket_fetch |-> IF kind = "docket_error" THEN "error" ELSE "ok",
     docket |-> docket_payload(k,
                               CASE kind = "bad_court" -> <<"scotus">>
                                 [] kind = "no_court" -> << >>
                                 [] OTHER -> <<"courts", "scotus", "">>,
                               DocketBodies[1])]

\* The feeds of the runs: up to MaxJudgeOpinions opinions of every kind
Feeds ==
    UNION {{[k \in 1..n |-> feed_item(kinds[k], k)] : kinds \in [1..n -> OpinionKinds]} :
           n \in 0..MaxJudgeOpinions}

\* The tables with one more opinion handled
handled(st, outcome) == [st EXCEPT !.handled = Append(@, outcome)]

\* The one element of a set of one element: the value of an expression that
\* is computed once
the(S) == CHOOSE x \in S : TRUE

\* The rest of the loop body once process_opinion_cluster answered c: the
\* opinion and the relation of the judge to the docket
after_cluster(st, item, judge, embedding, d, c) ==
    LET o == process_opinion(c.clusters, st.judges, st.opinions, item.opinion, c.row,
                             None, embedding)
        r == process_judge_docket_relation(st.relations, judge, d.row, "author",
                                           c.dockets[d.row].outcome_status)
        with_cluster == [st EXCEPT !.courts = d.courts, !.dockets = c.dockets,
                                   !.clusters = c.clusters]
    IN  IF o.raised THEN handled(with_cluster, "failed")
        ELSE handled([with_cluster EXCEPT !.opinions = o.opinions, !.relations = r.rows],
                     "stored")

\* The rest of the loop body once process_docket answered d: `if docket:`
\* and the cluster
after_docket(st, item, judge, embedding, d) ==
    IF d.raised THEN handled(st, "failed")
    ELSE IF d.row = None THEN handled(st, "skipped")
    ELSE the({IF c.raised
              THEN handled([st EXCEPT !.courts = d.courts, !.dockets = d.dockets],
                           "failed")
              ELSE after_cluster(st, item, judge, embedding, d, c) :
                 c \in {process_opinion_cluster(d.dockets, st.judges, st.clusters,
                                                item.cluster, d.row)}})

\* The body of the loop for one opinion, on the tables st: "stored" when the
\* docket, the cluster, the opinion and the relation were processed, "skipped"
\* for a `continue` and for a docket that process_docket did not return,
\* "failed" when a step raised and the except clause went on.  Each process_*
\* call is a transaction of its own, so what was stored before the step that
\* raised stays
ingest_opinion(st, item, judge, embedding) ==
    IF item.opinion.cluster = NoReference THEN handled(st, "skipped")
    ELSE IF reference_id(item.opinion.cluster).raised THEN handled(st, "failed")
    ELSE IF item.cluster_fetch # "ok" THEN handled(st, "failed")
    ELSE IF item.cluster.docket = NoReference THEN handled(st, "skipped")
    ELSE IF reference_id(item.cluster.docket).raised THEN handled(st, "failed")
    ELSE IF item.docket_fetch # "ok" THEN handled(st, "failed")
    ELSE the({after_docket(st, item, judge, embedding, d) :
                 d \in {process_docket(st.courts, st.dockets, item.docket, None, "ok",
                                       embedding)}})

\* The loop over opinions_data from opinion k on
RECURSIVE ingest_opinions_stops_at_failure(_, _, _, _, _)
ingest_opinions_stops_at_failure(st, opinions_data, k, judge, embedding) ==
    IF k > Len(opinions_data) THEN st
    ELSE the({IF next.handled[k] = "failed" THEN next
              ELSE ingest_opinions_stops_at_failure(next, opinions_data, k + 1, judge,
                                                    embedding) :
                 next \in {ingest_opinion(st, opinions_data[k], judge, embedding)}})

RECURSIVE ingest_opinions(_, _, _, _, _)
ingest_opinions(st, opinions_data, k, judge, embedding) ==
    IF k > Len(opinions_data) THEN st
    ELSE the({ingest_opinions(next, opinions_data, k + 1, judge, embedding) :
                 next \in {ingest_opinion(st, opinions_data[k], judge, embedding)}})

\* IngestionManager.ingest_judge_complete on the tables st, as the tables
\* with the outcome of every opinion, the judge returned and whether the call
\* raised: the judge is fetched and saved before the loop, outside the try
ingest_judge_complete(st, judge_data, judge_fetch, opinions_data, embedding) ==
    IF judge_fetch # "ok"
    THEN [st EXCEPT !.returned = None, !.raised = TRUE]
    ELSE the({[ingest_opinions([st EXCEPT !.judges = j.judges], opinions_data, 1,
                               j.row, embedding)
                  EXCEPT !.returned = j.row, !.raised = FALSE] :
                 j \in {process_judge(st.judges, judge_data, embedding)}})

\* One call of ingest_judge_complete for judge 1: CourtListener answers for
\* the judge or fails, and lists one of the feeds
IngestJudgeComplete ==
    /\ ingest.op = "none"
    /\ \E data \in {p \in JudgePayloads : p.biography # << >>},
          judge_fetch \in {"ok", "error"}, feed \in Feeds :
        \E r \in {ingest_judge_complete(
                      [courts |-> courts, judges |-> judges, dockets |-> dockets,
                       clusters |-> clusters, opinions |-> opinions,
                       relations |-> relations, handled |-> << >>,
                       returned |-> None, raised |-> FALSE],
                      data, judge_fetch, feed,
                      ingest_generate_embedding(TRUE, apiKey, "ok", 1).value)} :
          /\ courts' = r.courts
          /\ judges' = r.judges
          /\ dockets' = r.dockets
          /\ clusters' = r.clusters
          /\ opinions' = r.opinions
          /\ relations' = r.relations
          /\ ingest' = [op |-> "ingest_judge_complete", id |-> data.id,
                        feed |-> feed, handled |-> r.handled,
                        row |-> r.returned, created |-> FALSE,
                        raised |-> r.raised]
    /\ UNCHANGED <<configVars, caseOutcomes, citations, search, analytics, network>>

-----------------------------------------------------------------------------
(* The specifications: the search service over stores of opinions, the
   analytics over stores of relations, the citation network over stores of
   citations *)

InitSearch ==
    /\ apiKey \in ApiKeys
    /\ citationLimit = MaxCitationLimit
    /\ influentialLimit = MaxInfluentialLimit
    /\ courts = CourtSamples
    /\ judges = JudgeSamples
    /\ dockets = DocketSamples
    /\ clusters = ClusterSamples
    /\ opinions \in [1..MaxOpinions -> OpinionRows]
    /\ relations = {}
    /\ caseOutcomes = << >>
    /\ citations = {}
    /\ search = NoCall
    /\ analytics = NoAnalytics
    /\ network = NoNetwork
    /\ ingest = NoIngest

NextSearch ==
    \/ SemanticSearchOpinions
    \/ GenerateEmbedding
    \/ IngestGenerateEmbedding
    \/ Respond

SpecSearch == InitSearch /\ [][NextSearch]_vars

\* The opinions of the analytics: one, written by judge 1 in court 1
AnalyticsOpinions == [o \in {1} |-> OpinionRow(1, 1, << >>, 1, None)]

InitAnalytics ==
    /\ apiKey = ""
    /\ citationLimit = MaxCitationLimit
    /\ influentialLimit = MaxInfluentialLimit
    /\ courts = CourtSamples
    /\ judges = JudgeSamples
    /\ dockets = DocketSamples
    /\ clusters = ClusterSamples
    /\ opinions = AnalyticsOpinions
    /\ relations \in RelationTables
    /\ caseOutcomes = CaseOutcomeSamples
    /\ citations = {}
    /\ search = NoCall
    /\ analytics = NoAnalytics
    /\ network = NoNetwork
    /\ ingest = NoIngest

NextAnalytics ==
    \/ GetJudgeList
    \/ GetJudgeProfile
    \/ SerializeJudge
    \/ PredictOutcome
    \/ ViewPredictOutcome
    \/ GetCaseTypeStatistics
    \/ RespondAnalytics

SpecAnalytics == InitAnalytics /\ [][NextAnalytics]_vars

InitCitation ==
    /\ apiKey = ""
    /\ citationLimit \in CitationLimits
    /\ influentialLimit = MaxInfluentialLimit
    /\ courts = CourtSamples
    /\ judges = JudgeSamples
    /\ dockets = DocketSamples
    /\ clusters = ClusterSamples
    /\ opinions = NetworkOpinions
    /\ relations = {}
    /\ caseOutcomes = << >>
    /\ citations \in CitationTables
    /\ search = NoCall
    /\ analytics = NoAnalytics
    /\ network = NoNetwork
    /\ ingest = NoIngest

NextCitation ==
    \/ CitationNetwork
    \/ RespondNetwork

SpecCitation == InitCitation /\ [][NextCitation]_vars

InitInfluential ==
    /\ apiKey = ""
    /\ citationLimit = MaxCitationLimit
    /\ influentialLimit \in InfluentialLimits
    /\ courts = CourtSamples
    /\ judges = JudgeSamples
    /\ dockets = DocketSamples
    /\ clusters = ClusterSamples
    /\ \E store \in InfluentialStores :
          /\ opinions = store.opinions
          /\ citations = store.citations
    /\ relations = {}
    /\ caseOutcomes = << >>
    /\ search = NoCall
    /\ analytics = NoAnalytics
    /\ network = NoNetwork
    /\ ingest = NoIngest

NextInfluential ==
    \/ MostInfluentialCases
    \/ RespondNetwork

SpecInfluential == InitInfluential /\ [][NextInfluential]_vars


InitCitationIngest ==
    /\ apiKey = ""
    /\ citationLimit = MaxCitationLimit
    /\ influentialLimit = MaxInfluentialLimit
    /\ courts = CourtSamples
    /\ judges = JudgeSamples
    /\ dockets = DocketSamples
    /\ clusters = ClusterSamples
    /\ opinions = IngestOpinions
    /\ relations = {}
    /\ caseOutcomes = << >>
    /\ citations = {}
    /\ search = NoCall
    /\ analytics = NoAnalytics
    /\ network = NoNetwork
    /\ ingest = NoIngest

NextCitationIngest ==
    \/ ProcessCitation
    \/ FetchCitations

SpecCitationIngest == InitCitationIngest /\ [][NextCitationIngest]_vars

InitDocketIngest ==
    /\ apiKey = "sk-live"
    /\ citationLimit = MaxCitationLimit
    /\ influentialLimit = MaxInfluentialLimit
    /\ courts = CourtSamples
    /\ judges = JudgeSamples
    /\ dockets = << >>
    /\ clusters = << >>
    /\ opinions = << >>
    /\ relations = {}
    /\ caseOutcomes = << >>
    /\ citations = {}
    /\ search = NoCall
    /\ analytics = NoAnalytics
    /\ network = NoNetwork
    /\ ingest = NoIngest

NextDocketIngest == ProcessDocket

SpecDocketIngest == InitDocketIngest /\ [][NextDocketIngest]_vars

InitCaseTypes ==
    /\ apiKey = ""
    /\ citationLimit = MaxCitationLimit
    /\ influentialLimit = MaxInfluentialLimit
    /\ courts = CourtSamples
    /\ judges = JudgeSamples
    /\ dockets \in DocketStores
    /\ clusters = << >>
    /\ opinions = << >>
    /\ relations \in case_type_relations(dockets)
    /\ caseOutcomes = << >>
    /\ citations = {}
    /\ search = NoCall
    /\ analytics = NoAnalytics
    /\ network = NoNetwork
    /\ ingest = NoIngest

NextCaseTypes ==
    \/ GetCaseTypeStatistics
    \/ RespondAnalytics

SpecCaseTypes == InitCaseTypes /\ [][NextCaseTypes]_vars

InitHistory ==
    /\ apiKey = ""
    /\ citationLimit = MaxCitationLimit
    /\ influentialLimit = MaxInfluentialLimit
    /\ courts = CourtSamples
    /\ judges = JudgeSamples
    /\ clusters = ClusterSamples
    /\ \E store \in HistoryStores :
          /\ dockets = store.dockets
          /\ opinions = store.opinions
          /\ citations = store.citations
    /\ relations = HistoryRelations
    /\ caseOutcomes = HistoryCaseOutcomes
    /\ search = NoCall
    /\ analytics = NoAnalytics
    /\ network = NoNetwork
    /\ ingest = NoIngest

NextHistory ==
    \/ GetCaseHistory
    \/ JudgeCaseHistory
    \/ CaseHistory
    \/ CasePredictionAdvanced

SpecHistory == InitHistory /\ [][NextHistory]_vars

InitComprehensive ==
    /\ apiKey \in ApiKeys
    /\ citationLimit = MaxCitationLimit
    /\ influentialLimit = MaxInfluentialLimit
    /\ courts = CourtSamples
    /\ judges = JudgeSamples
    /\ dockets = DocketSamples
    /\ clusters = ClusterSamples
    /\ opinions \in ComprehensiveOpinions
    /\ relations = {}
    /\ caseOutcomes = << >>
    /\ citations = {}
    /\ search = NoCall
    /\ analytics = NoAnalytics
    /\ network = NoNetwork
    /\ ingest = NoIngest

NextComprehensive ==
    \/ ComprehensiveSearch
    \/ SemanticSearch
    \/ Respond

SpecComprehensive == InitComprehensive /\ [][NextComprehensive]_vars

InitCourtListener ==
    /\ apiKey = ""
    /\ citationLimit = MaxCitationLimit
    /\ influentialLimit = MaxInfluentialLimit
    /\ courts = CourtSamples
    /\ judges = JudgeSamples
    /\ dockets = DocketSamples
    /\ clusters = ClusterSamples
    /\ opinions = IngestOpinions
    /\ relations = {}
    /\ caseOutcomes = << >>
    /\ citations = {}
    /\ search = NoCall
    /\ analytics = NoAnalytics
    /\ network = NoNetwork
    /\ ingest = NoIngest

NextCourtListener ==
    \/ MakeRequest
    \/ Paginate
    \/ RespondIngest

SpecCourtListener == InitCourtListener /\ [][NextCourtListener]_vars

InitDeepBatch ==
    /\ apiKey = ""
    /\ citationLimit = MaxCitationLimit
    /\ influentialLimit = MaxInfluentialLimit
    /\ courts = CourtSamples
    /\ judges \in BatchStores
    /\ dockets = DocketSamples
    /\ clusters = ClusterSamples
    /\ opinions = << >>
    /\ relations = {}
    /\ caseOutcomes = << >>
    /\ citations = {}
    /\ search = NoCall
    /\ analytics = NoAnalytics
    /\ network = NoNetwork
    /\ ingest = NoIngest

NextDeepBatch ==
    \/ BatchStart
    \/ BatchPage

\* The command is started and, once started, runs: each round of its loop is
\* taken when it can be
SpecDeepBatch ==
    InitDeepBatch /\ [][NextDeepBatch]_vars /\ WF_vars(BatchStart) /\ WF_vars(BatchPage)

InitReingest ==
    /\ apiKey = "sk-live"
    /\ citationLimit = MaxCitationLimit
    /\ influentialLimit = MaxInfluentialLimit
    /\ courts = CourtSamples
    /\ judges = << >>
    /\ dockets = << >>
    /\ clusters = ClusterSamples
    /\ opinions = << >>
    /\ relations = {}
    /\ caseOutcomes = << >>
    /\ citations = {}
    /\ search = NoCall
    /\ analytics = NoAnalytics
    /\ network = NoNetwork
    /\ ingest = NoIngest

NextReingest ==
    \/ ProcessJudge
    \/ ReingestDocket
    \/ ProcessOpinion
    \/ RespondIngest

SpecReingest == InitReingest /\ [][NextReingest]_vars

InitRelation ==
    /\ apiKey = "sk-live"
    /\ citationLimit = MaxCitationLimit
    /\ influentialLimit = MaxInfluentialLimit
    /\ courts = CourtSamples
    /\ judges = << >>
    /\ dockets = << >>
    /\ clusters = << >>
    /\ opinions = << >>
    /\ relations = {}
    /\ caseOutcomes = << >>
    /\ citations = {}
    /\ search = NoCall
    /\ analytics = NoAnalytics
    /\ network = NoNetwork
    /\ ingest = NoIngest

NextRelation == ProcessJudgeDocketRelation

SpecRelation == InitRelation /\ [][NextRelation]_vars

InitIntegrity ==
    /\ apiKey = "sk-live"
    /\ citationLimit = MaxCitationLimit
    /\ influentialLimit = MaxInfluentialLimit
    /\ courts = CourtSamples
    /\ judges = [j \in {1} |-> [full_name |-> <<"A"," ","B">>, biography |-> <<"b">>,
                                embedding |-> None]]
    /\ dockets = << >>
    /\ clusters = << >>
    /\ opinions = << >>
    /\ relations = {}
    /\ caseOutcomes = << >>
    /\ citations = {}
    /\ search = NoCall
    /\ analytics = NoAnalytics
    /\ network = NoNetwork
    /\ ingest = NoIngest

NextIntegrity ==
    \/ IntegrityDocket
    \/ ProcessOpinionCluster
    \/ IntegrityOpinion
    \/ IntegrityCitation
    \/ RespondIngest

SpecIntegrity == InitIntegrity /\ [][NextIntegrity]_vars

InitJudgeComplete ==
    /\ apiKey = "sk-live"
    /\ citationLimit = MaxCitationLimit
    /\ influentialLimit = MaxInfluentialLimit
    /\ courts = CourtSamples
    /\ judges = << >>
    /\ dockets = << >>
    /\ clusters = << >>
    /\ opinions = << >>
    /\ relations = {}
    /\ caseOutcomes = << >>
    /\ citations = {}
    /\ search = NoCall
    /\ analytics = NoAnalytics
    /\ network = NoNetwork
    /\ ingest = NoIngest

NextJudgeComplete ==
    \/ IngestJudgeComplete
    \/ RespondIngest

SpecJudgeComplete == InitJudgeComplete /\ [][NextJudgeComplete]_vars

-----------------------------------------------------------------------------
(* Properties of the search service, checked under SpecSearch *)

IsSearch == search.op = "semantic_search_opinions"

\* The opinion behind result item k of the last call
result_opinion(k) == opinions[search.result[k].id]

\* C1: when generate_embedding answered None, semantic_search_opinions returns
\* exactly the formatted rows of _keyword_search_opinions run with the same
\* query, filters and max_results.
C1_FallbackEqualsKeywordSearch ==
    (IsSearch /\ search.embedding = None) =>
        /\ search.status = "returned"
        /\ search.result =
               format_opinion_results(
                   keyword_search_opinions(search.query, search.filters,
                                           search.max_results))

C1_Witness ==
    /\ IsSearch
    /\ search.embedding = None
    /\ search.remote = "quota_error"
    /\ search.filters.jurisdiction = "federal"
    /\ search.query # << >>
    /\ Len(search.result) = 1
    /\ \E i \in DOMAIN opinions : court_of(opinions[i]).jurisdiction = "S"

\* C2: when a vector was obtained and the distance query raises, the search
\* still returns: the rows of the lexical scan with the same filters.
C2_SqlErrorFallsBackToKeyword ==
    (IsSearch /\ search.sql_failed) =>
        /\ search.status = "returned"
        /\ search.result =
               format_opinion_results(
                   keyword_search_opinions(search.query, search.filters,
                                           search.max_results))

\* C3: every opinion returned in lexical-fallback mode satisfies every filter
\* predicate the vector path applies.
C3_FallbackAppliesAllFilters ==
    (IsSearch /\ search.mode = "keyword" /\ search.status = "returned") =>
        \A k \in DOMAIN search.result :
            where_clauses(result_opinion(k), search.filters)

\* C4: in vector mode the result holds only opinions with an embedding that
\* satisfy all filters, at most max_results of them, in the id order of the
\* nearest-neighbour query, hence by non-decreasing distance, whatever the
\* order of the re-fetched rows.
C4_VectorResultsRanked ==
    (IsSearch /\ search.mode = "vector" /\ search.status = "returned") =>
        /\ Len(search.result) <= search.max_results
        /\ \A k \in DOMAIN search.result :
              /\ result_opinion(k).embedding # None
              /\ where_clauses(result_opinion(k), search.filters)
        /\ [k \in DOMAIN search.result |-> search.result[k].id] = search.rows
        /\ \A k \in 1..(Len(search.result) - 1) :
              distance(result_opinion(k).embedding, search.embedding)
                  <= distance(result_opinion(k + 1).embedding, search.embedding)

C4_Witness ==
    /\ IsSearch
    /\ search.mode = "vector"
    /\ search.status = "returned"
    /\ Len(search.result) = 2
    /\ search.fetched # search.rows
    /\ search.filters.court_level = "supreme"
    /\ distance(result_opinion(1).embedding, search.embedding)
           < distance(result_opinion(2).embedding, search.embedding)

\* C5: generate_embedding never raises; it answers None without a credential,
\* with the placeholder credential and when the remote call fails; it makes at
\* most one remote attempt, and none without a client.
C5_EmbeddingNeverRaises ==
    search.op \in {"generate_embedding", "ingest_generate_embedding",
                   "semantic_search_opinions"} =>
        /\ ~(search.status = "raised" /\ search.mode = "none")
        /\ search.attempts <= 1
        /\ apiKey \in {"", PLACEHOLDER_KEY} =>
               search.attempts = 0 /\ search.embedding = None
        /\ search.remote \notin {"", "ok"} =>
               search.attempts = 1 /\ search.embedding = None

C5_Witness ==
    /\ search.op = "generate_embedding"
    /\ apiKey = "sk-live"
    /\ search.remote = "malformed_response"
    /\ search.status = "returned"
    /\ search.attempts = 1
    /\ search.embedding = None

-----------------------------------------------------------------------------
(* Properties of the analytics, checked under SpecAnalytics *)

\* the judge's relations with a recorded outcome
with_outcome(j) == exclude_blank_outcome(docket_relations(j))

\* those of them whose outcome contains "grant"
with_grant(j) == filter_outcome_grant(with_outcome(j))

\* C6: the success_probability returned by predict_outcome lies in [5, 95] for
\* every judge and every case input, both as the analytics service and as the
\* judge endpoint compute it; a judge who granted every recorded case does not
\* get 100
C6_ProbabilityWithin5And95 ==
    /\ analytics.op = "predict_outcome" =>
          \A k \in DOMAIN analytics.result :
              /\ analytics.result[k].success_probability >= 5
              /\ analytics.result[k].success_probability <= 95
    /\ analytics.op = "view_predict_outcome" =>
          \A k \in DOMAIN analytics.result :
              /\ analytics.result[k].success_probability >= 50
              /\ analytics.result[k].success_probability <= 950

\* C7: every grant_rate of the judge list, the judge profile and the list
\* serializer, and every granted_percentage of the case-type statistics, lies in
\* [0, 100]
C7_RatesWithin0And100 ==
    /\ analytics.op \in {"get_judge_list", "get_judge_profile", "JudgeListSerializer"} =>
          \A k \in DOMAIN analytics.result :
              /\ analytics.result[k].grant_rate >= 0
              /\ analytics.result[k].grant_rate <= 1000
    /\ analytics.op = "get_case_type_statistics" =>
          \A k \in DOMAIN analytics.result :
              /\ analytics.result[k].granted_percentage >= 0
              /\ analytics.result[k].granted_percentage <= 100

\* C7 witness: the judge list reports a rate of 100 for judge 1, computed from
\* two or more recorded outcomes, all of them grants, among relations of which
\* some have no outcome
C7_Witness ==
    /\ analytics.op = "get_judge_list"
    /\ \E k \in DOMAIN analytics.result :
          /\ analytics.result[k].id = 1
          /\ analytics.result[k].grant_rate = 1000
    /\ Cardinality(with_outcome(1)) >= 2
    /\ Cardinality(docket_relations(1)) > Cardinality(with_outcome(1))

\* C8 as stated: with n > 0 recorded outcomes of which g contain "grant", the
\* grant_rate of the judge list and of the judge profile is exactly 100 * g / n;
\* with n = 0 it is 70.0 in the list and 78.0 in the profile
C8_GrantRateIsExactQuotient ==
    analytics.op \in {"get_judge_list", "get_judge_profile"} =>
        \A k \in DOMAIN analytics.result :
            LET j == analytics.result[k].id
                n == Cardinality(with_outcome(j))
                g == Cardinality(with_grant(j))
            IN  IF n > 0 THEN analytics.result[k].grant_rate * n = 1000 * g
                ELSE analytics.result[k].grant_rate =
                         IF analytics.op = "get_judge_list" THEN 700 ELSE 780

\* C8 amended: with n > 0 the grant_rate is 100 * g / n rounded to one decimal
\* (no tenth is nearer to the quotient); with n = 0 it is 70.0 in the list and
\* 78.0 in the profile
C8_GrantRateIsRoundedQuotient ==
    analytics.op \in {"get_judge_list", "get_judge_profile"} =>
        \A k \in DOMAIN analytics.result :
            LET j == analytics.result[k].id
                n == Cardinality(with_outcome(j))
                g == Cardinality(with_grant(j))
                d == analytics.result[k].grant_rate * n - 1000 * g
            IN  IF n > 0 THEN 2 * d <= n /\ -2 * d <= n
                ELSE analytics.result[k].grant_rate =
                         IF analytics.op = "get_judge_list" THEN 700 ELSE 780

\* C8 witness: the profile of a judge with 8 recorded outcomes, 5 of them
\* grants, reports 62.5
C8_Witness ==
    /\ analytics.op = "get_judge_profile"
    /\ analytics.judge = 1
    /\ Cardinality(with_outcome(1)) = 8
    /\ Cardinality(with_grant(1)) = 5
    /\ analytics.result[1].grant_rate = 625

-----------------------------------------------------------------------------
(* Properties of the citation network, checked under SpecCitation *)

IsNetwork == network.op = "citation_network" /\ network.status = "200"

\* C9: the influence_score of an opinion is min(100, 2 * |cited_by| +
\* 0.5 * |cites_to|) over the returned lists, so it lies in [0, 100]
C9_InfluenceScoreIsCappedSum ==
    IsNetwork =>
        LET sum == 20 * Len(network.cited_by) + 5 * Len(network.cites_to)
        IN  /\ network.influence_score = IF sum <= 1000 THEN sum ELSE 1000
            /\ network.influence_score >= 0
            /\ network.influence_score <= 1000

\* C9 witness: 5 cited_by and 3 cites_to give 11.5
C9_Witness ==
    /\ IsNetwork
    /\ Len(network.cited_by) = 5
    /\ Len(network.cites_to) = 3
    /\ network.influence_score = 115

\* C10: cites_to lists only opinions Y with a stored citation from the opinion
\* to Y, cited_by only opinions Y with a stored citation from Y to the opinion;
\* each list is cut to the limit on its own, so it holds the limit's number of
\* the linked neighbours of its direction or all of them; every listed
\* neighbour is linked to a cluster and a docket, and the view answers
C10_NeighbourhoodIsStoredAndTruncated ==
    network.op = "citation_network" /\ network.opinion_id \in DOMAIN opinions =>
        LET x == network.opinion_id
        IN  /\ network.status = "200"
            /\ \A k \in DOMAIN network.cites_to :
                  /\ [citing |-> x, cited |-> network.cites_to[k].opinion_id] \in citations
                  /\ linked(network.cites_to[k].opinion_id)
            /\ \A k \in DOMAIN network.cited_by :
                  /\ [citing |-> network.cited_by[k].opinion_id, cited |-> x] \in citations
                  /\ linked(network.cited_by[k].opinion_id)
            /\ \A k, l \in DOMAIN network.cites_to :
                  k # l => network.cites_to[k].opinion_id # network.cites_to[l].opinion_id
            /\ \A k, l \in DOMAIN network.cited_by :
                  k # l => network.cited_by[k].opinion_id # network.cited_by[l].opinion_id
            /\ Len(network.cites_to) =
                   Min(citationLimit,
                       Cardinality({c \in cites_to_rows(x) : linked(c.cited)}))
            /\ Len(network.cited_by) =
                   Min(citationLimit,
                       Cardinality({c \in cited_by_rows(x) : linked(c.citing)}))

\* C10 witness: cites_to is cut to the limit while cited_by, shorter than the
\* limit, is returned whole
C10_Witness ==
    /\ IsNetwork
    /\ Cardinality(cites_to_rows(network.opinion_id)) > citationLimit
    /\ Len(network.cites_to) = citationLimit
    /\ Len(network.cited_by) > 0
    /\ Len(network.cited_by) < citationLimit
    /\ Len(network.cited_by) = Cardinality(cited_by_rows(network.opinion_id))

-----------------------------------------------------------------------------
(* Properties of the ranking of influential cases, checked under
   SpecInfluential *)

IsInfluential == network.op = "most_influential_cases"

\* what C11 says of the listed cases apart from the annotation: each was filed
\* in a year of the requested range on a docket whose nature of suit contains
\* the category, when one is given, the cited_by counts do not increase down
\* the list, and the list is no longer than the limit
influential_listing_ok ==
    /\ Len(network.cases) <= influentialLimit
    /\ \A k \in DOMAIN network.cases :
          LET o == network.cases[k].opinion_id
          IN  /\ opinions[o].date_filed # None
              /\ year_of(opinions[o].date_filed) >= network.year_from
              /\ year_of(opinions[o].date_filed) <= network.year_to
              /\ network.category # << >> =>
                    icontains(docket_of(opinions[o]).nature_of_suit, network.category)
              /\ network.cases[k].citation_count = Cardinality(cited_by_rows(o))
    /\ \A k, l \in DOMAIN network.cases :
          k < l => network.cases[k].citation_count >= network.cases[l].citation_count

\* C11 as stated: the listed cases are filed in the requested years, match the
\* category, are ordered by non-increasing cited_by count, are at most limit,
\* and each is annotated with exactly min(100, cited_by_count / 15000 * 100)
C11_InfluentialAnnotatedExactly ==
    IsInfluential =>
        /\ influential_listing_ok
        /\ \A k \in DOMAIN network.cases :
              LET c == network.cases[k].citation_count
              IN  IF c >= 15000 THEN network.cases[k].influence_score = 100
                  ELSE network.cases[k].influence_score * 15000 = c * 100

\* C11 amended: the same, each case annotated with
\* min(100, cited_by_count / 15000 * 100) rounded to the nearest whole number
C11_InfluentialAnnotatedRounded ==
    IsInfluential =>
        /\ influential_listing_ok
        /\ \A k \in DOMAIN network.cases :
              LET c == network.cases[k].citation_count
                  d == network.cases[k].influence_score * 15000 - c * 100
              IN  IF c >= 15000 THEN network.cases[k].influence_score = 100
                  ELSE 2 * d <= 15000 /\ -2 * d <= 15000

\* C11 witness: three opinions are selected and two listed, the first with more
\* than 15000 citations and the annotation 100, the second with 225 citations
\* and the annotation 2
C11_Witness ==
    /\ IsInfluential
    /\ influentialLimit = 2
    /\ Cardinality(influential_selection(network.year_from, network.year_to,
                                         network.category)) = 3
    /\ Len(network.cases) = 2
    /\ network.cases[1].citation_count > 15000
    /\ network.cases[1].influence_score = 100
    /\ network.cases[2].citation_count = 225
    /\ network.cases[2].influence_score = 2

-----------------------------------------------------------------------------
(* Properties of the citation ingestion, checked under SpecCitationIngest *)

IsProcessCitation == ingest.op = "process_citation"

\* At most one stored edge per ordered pair, and exactly one for the pair
\* that process_citation has just ingested between two stored opinions
one_edge_per_pair ==
    /\ \A a \in IngestOpinionIds, b \in IngestOpinionIds :
          Cardinality(edges(citations, a, b)) <= 1
    /\ (IsProcessCitation /\ ingest.row # << >>) =>
          /\ Cardinality(edges(citations, ingest.citing, ingest.cited)) = 1
          /\ ingest.row[1] \in edges(citations, ingest.citing, ingest.cited)

\* A process_citation step stores nothing but an edge of the ingested ordered
\* pair, and stores nothing when that edge was stored already
directed_step ==
    ingest'.op = "process_citation" =>
        /\ citations \subseteq citations'
        /\ citations' \ citations \subseteq
              edges(citations', ingest'.citing, ingest'.cited)
        /\ edges(citations, ingest'.citing, ingest'.cited) # {} =>
              citations' = citations

\* C12: citation ingestion is directed and idempotent: after any sequence of
\* process_citation calls there is at most one stored edge per ordered pair
\* (citing, cited), ingesting the same edge twice leaves exactly one stored
\* edge, and ingesting (a, b) never creates (b, a).
C12_CitationIngestionDirectedIdempotent ==
    [](one_edge_per_pair) /\ [][directed_step]_vars

\* The edge (a, b) has been ingested a second time, and (b, a) is not stored
C12_Witness ==
    /\ IsProcessCitation
    /\ ingest.row # << >>
    /\ ~ingest.created
    /\ ingest.citing # ingest.cited
    /\ edges(citations, ingest.cited, ingest.citing) = {}

\* C13: after any sequence of citation-ingestion operations, no stored edge
\* has its citing opinion equal to its cited opinion.
C13_NoSelfCitation == \A r \in citations : r.citing # r.cited

-----------------------------------------------------------------------------
(* Properties of the docket ingestion, checked under SpecDocketIngest *)

IsProcessDocket == ingest.op = "process_docket"

DocketIds == {p.id : p \in DocketPayloads}

\* No docket_id has more than one Docket row
one_row_per_docket_id ==
    \A id \in DocketIds : Cardinality(docket_rows(dockets, id)) <= 1

\* This step applies process_docket to the payload and the court of the
\* application before it
same_payload_again ==
    /\ IsProcessDocket
    /\ ingest'.op = "process_docket"
    /\ ingest'.data = ingest.data
    /\ ingest'.court = ingest.court

\* The fields of the row of the payload's docket_id, but for the embedding
fields_but_embedding(store, id) ==
    LET row == store[CHOOSE d \in docket_rows(store, id) : TRUE]
    IN  [row EXCEPT !.embedding = None]

-----------------------------------------------------------------------------
(* Properties of the case type statistics, checked under SpecCaseTypes *)

IsCaseTypeStatistics == analytics.op = "get_case_type_statistics"

\* The four fixed categories and their illustrative total_cases and
\* granted_percentage
fixed_categories ==
    <<[category |-> <<"C","i","v","i","l"," ","R","i","g","h","t","s">>,
       total_cases |-> 234, granted_percentage |-> 76],
      [category |-> <<"C","o","n","t","r","a","c","t"," ","D","i","s","p","u","t","e","s">>,
       total_cases |-> 189, granted_percentage |-> 82],
      [category |-> <<"E","m","p","l","o","y","m","e","n","t">>,
       total_cases |-> 156, granted_percentage |-> 69],
      [category |-> <<"P","e","r","s","o","n","a","l"," ","I","n","j","u","r","y">>,
       total_cases |-> 145, granted_percentage |-> 91]>>

\* C15: case_type_statistics returns one record for each of the four fixed
\* categories; for a category with zero matching dockets it returns that
\* category's fixed illustrative total_cases and granted_percentage, so no
\* record reports total_cases = 0.
C15_IllustrativeTupleForEmptyCategory ==
    IsCaseTypeStatistics =>
        /\ Len(analytics.result) = 4
        /\ \A k \in 1..4 :
              LET rec == analytics.result[k]
                  fixed == fixed_categories[k]
                  matching ==
                      {d \in DOMAIN dockets :
                          \/ icontains(dockets[d].nature_of_suit, fixed.category)
                          \/ \E w \in DOMAIN ui_categories[k].keywords :
                                icontains(dockets[d].case_name,
                                          ui_categories[k].keywords[w])}
              IN  /\ rec.category = fixed.category
                  /\ rec.total_cases # 0
                  /\ matching = {} =>
                        /\ rec.total_cases = fixed.total_cases
                        /\ rec.granted_percentage = fixed.granted_percentage
                  /\ matching # {} => rec.total_cases = Cardinality(matching)

\* The statistics of a store in which a docket matches Personal Injury and
\* none matches Employment
C15_Witness ==
    /\ IsCaseTypeStatistics
    /\ category_dockets(ui_categories[4]) # {}
    /\ category_dockets(ui_categories[3]) = {}
    /\ analytics.result[3].total_cases = 156

-----------------------------------------------------------------------------
(* Properties of the case history, checked under SpecHistory *)

IsHistory == analytics.op \in {"get_case_history", "judge_case_history", "case_history"}

history_cases == analytics.result.response.cases

\* The citations received by the opinions of a docket
citations_received(d) ==
    Cardinality({c \in citations : opinion_docket(c.cited) = d})

\* C16: every case entry of a judge's case history carries precedent_value
\* High if the citations received are more than 100, Medium if they are more
\* than 20 and at most 100, and Low otherwise.
C16_PrecedentValueByCitations ==
    analytics.op \in {"get_case_history", "judge_case_history"} =>
        \A k \in DOMAIN history_cases :
            history_cases[k].precedent_value =
                IF citations_received(history_cases[k].docket) > 100 THEN "High"
                ELSE IF citations_received(history_cases[k].docket) > 20 THEN "Medium"
                ELSE "Low"

\* The duration reported by entry k of the last case history
reported_duration(k) ==
    IF analytics.op = "get_case_history" THEN history_cases[k].duration
    ELSE history_cases[k].duration_days

\* C17: every case entry of a judge's case history reports a duration equal
\* to date_terminated - date_filed when the case has a termination date, and
\* today - date_filed when it is still open.
C17_DurationToTerminationOrToday ==
    IsHistory =>
        \A k \in DOMAIN history_cases :
            LET d == dockets[history_cases[k].docket]
            IN  d.date_filed # None =>
                    IF d.date_terminated # None
                    THEN reported_duration(k) = d.date_terminated - d.date_filed
                    ELSE \E today \in Todays :
                            /\ analytics.result.today \in {None, today}
                            /\ reported_duration(k) = today - d.date_filed

\* The last call and this one are the same operation with the same request
same_request ==
    /\ analytics.op # "none"
    /\ analytics'.op = analytics.op
    /\ analytics'.result.request = analytics.result.request

C19_MissingJudgeIsNotFound ==
    (analytics.op # "none" /\ analytics.judge = MissingJudge) =>
        analytics.status \in {"404", "empty"}

-----------------------------------------------------------------------------
(* Properties of the comprehensive search, checked under SpecComprehensive *)

\* A docket whose case name contains the query, and a judge whose name does
case_matches(query) ==
    \E d \in DOMAIN dockets : icontains(dockets[d].case_name, query)

judge_matches(query) ==
    \E j \in DOMAIN judges : icontains(judges[j].full_name, query)

\* C20: comprehensive search runs the same query against opinions, cases and
\* judges independently, each result list truncated to its own cap (opinions
\* at most max_results/2, cases and judges a quarter each); the breakdown
\* count of each type equals the length of that type's list and the flattened
\* list is the concatenation of the three lists.
C20_ComprehensiveSearchesThreeTypes ==
    /\ (search.op = "comprehensive_search" /\ search.status = "returned") =>
          /\ Len(search.result.opinions) <= search.max_results \div 2
          /\ Len(search.result.cases) <= search.max_results \div 4
          /\ Len(search.result.judges) <= search.max_results \div 4
          /\ (/\ search.query # << >>
              /\ search.max_results \div 4 >= 1
              /\ case_matches(search.query)) => search.result.cases # << >>
          /\ (/\ search.query # << >>
              /\ search.max_results \div 4 >= 1
              /\ judge_matches(search.query)) => search.result.judges # << >>
    /\ (search.op = "semantic_search" /\ search.status = "200") =>
          /\ search.result.breakdown.opinions = Len(search.result.opinions)
          /\ search.result.breakdown.cases = Len(search.result.cases)
          /\ search.result.breakdown.judges = Len(search.result.judges)
          /\ search.result.results =
                 search.result.opinions \o search.result.cases \o search.result.judges

\* C21: for every requested max_results, the result list of the semantic
\* search endpoint is no longer than min(max_results, 100).
C21_EndpointBoundedByMaxResults ==
    (search.op = "semantic_search" /\ search.status = "200") =>
        Len(search.result.results) <= Min(search.max_results, SERIALIZER_MAX_RESULTS)

-----------------------------------------------------------------------------
(* Properties of the search with an empty query, checked under SpecSearch *)

\* C22: a search with an empty query does not fail; in lexical-fallback mode
\* it returns the first max_results opinions that satisfy the filters, with no
\* text predicate applied.
C22_EmptyQueryMatchesAllWithinFilters ==
    (IsSearch /\ search.query = << >> /\ search.embedding = None) =>
        /\ search.status = "returned"
        /\ search.mode = "keyword"
        /\ [k \in DOMAIN search.result |-> search.result[k].id] =
               Prefix(default_order({i \in DOMAIN opinions :
                                        where_clauses(opinions[i], search.filters)}),
                      search.max_results)

-----------------------------------------------------------------------------
(* Properties of the CourtListener client, checked under SpecCourtListener *)

IsMakeRequest == ingest.op = "make_request"

\* outcome k of the last request is one _make_request tries again after
retried_outcome(k) ==
    \/ ingest.outcomes[k] \in RETRIED_STATUS
    \/ ingest.outcomes[k] = "connection"
    \/ ingest.outcomes[k] = "bad_json" /\ ingest.json_is_request_error

\* C24: _make_request makes at most max_retries attempts and ends by returning
\* or raising; it returns the JSON of the first successful attempt; an HTTP
\* error other than 502, 503 and 504 is raised after that attempt without a
\* retry; 502, 503, 504 and connection errors are retried and the error of the
\* max_retries-th failed attempt is raised.
C24_MakeRequestRetries ==
    IsMakeRequest =>
        /\ ingest.status \in {"returned", "raised"}
        /\ ingest.attempts <= ingest.max_retries
        /\ \A k \in 1..(ingest.attempts - 1) : retried_outcome(k)
        /\ ingest.status = "returned" =>
               /\ ingest.outcomes[ingest.attempts] = "200"
               /\ ingest.value = ingest.attempts
               /\ \A k \in 1..(ingest.attempts - 1) : ingest.outcomes[k] # "200"
        /\ \A k \in 1..ingest.max_retries :
               (/\ ingest.outcomes[k] \in HttpErrors \ RETRIED_STATUS
                /\ \A i \in 1..(k - 1) : retried_outcome(i)) =>
                   /\ ingest.status = "raised"
                   /\ ingest.attempts = k
                   /\ ingest.error = ingest.outcomes[k]
        /\ (/\ ingest.max_retries >= 1
            /\ \A k \in 1..ingest.max_retries :
                   ingest.outcomes[k] \in RETRIED_STATUS \cup {"connection"}) =>
               /\ ingest.status = "raised"
               /\ ingest.attempts = ingest.max_retries
               /\ ingest.error = ingest.outcomes[ingest.max_retries]

C24_Witness ==
    /\ IsMakeRequest
    /\ ingest.max_retries = 3
    /\ ingest.outcomes = <<"503", "connection", "502">>
    /\ ingest.status = "raised"
    /\ ingest.attempts = 3
    /\ ingest.error = "502"

IsPaginate == ingest.op = "paginate"

\* The results of the pages 1..n of the last listing, in page order
RECURSIVE listing_results(_)
listing_results(n) ==
    IF n = 0 THEN << >>
    ELSE listing_results(n - 1) \o page_data(ingest.pages, n).results

\* page k of the last listing ends the pagination: it is empty or has no next
\* link
last_page(k) ==
    \/ page_data(ingest.pages, k).results = << >>
    \/ ~page_data(ingest.pages, k).next

\* C25: _paginate yields the upstream results in page order beginning at
\* page 1, at most max_results of them when max_results is given; it requests
\* page k+1 only after page k was non-empty and had a next link, and stops at
\* the first page that is empty or has no next link.
C25_PaginateInPageOrder ==
    IsPaginate =>
        /\ ingest.requests >= 1
        /\ ingest.yielded =
               Prefix(listing_results(Min(ingest.requests, Len(ingest.pages))),
                      Len(ingest.yielded))
        /\ ingest.given => Len(ingest.yielded) <= ingest.max_results
        /\ \A k \in 1..(ingest.requests - 1) : ~last_page(k)
        /\ ingest.status = "exhausted" =>
               /\ last_page(ingest.requests)
               /\ ingest.yielded = listing_results(ingest.requests)

-----------------------------------------------------------------------------
(* Properties of the deep-batch ingestion, checked under SpecDeepBatch *)

IsDeepBatch == ingest.op = "deep_batch"

\* C23: the deep-batch command terminates for every finite upstream listing,
\* also when every judge of the first upstream page is already stored (skip
\* or force-update mode), and on exit at most `limit` new judges were ingested.
C23_DeepBatchTerminates ==
    /\ [](IsDeepBatch => ingest.new_count <= ingest.limit)
    /\ <>(IsDeepBatch /\ ingest.pc = "done")

-----------------------------------------------------------------------------
(* Properties of the re-ingestion, checked under SpecReingest *)

\* every row of the table that held an embedding still holds one
embedding_kept(before, after) ==
    \A k \in DOMAIN before :
        before[k].embedding # None =>
            k \in DOMAIN after /\ after[k].embedding # None

\* no row of the table changed its embedding
embedding_unchanged(before, after) ==
    \A k \in DOMAIN before :
        k \in DOMAIN after /\ after[k].embedding = before[k].embedding

\* C26: re-ingesting a Judge, a Docket or an Opinion while the embedding
\* provider is unavailable leaves a stored embedding unchanged, and through
\* ingestion an embedding that is not null never becomes null.
C26_EmbeddingNeverNulled ==
    [][/\ embedding_kept(judges, judges')
       /\ embedding_kept(dockets, dockets')
       /\ embedding_kept(opinions, opinions')
       /\ (/\ ingest'.op \in {"process_judge", "process_docket", "process_opinion"}
           /\ ingest'.embedding = None) =>
              /\ embedding_unchanged(judges, judges')
              /\ embedding_unchanged(dockets, dockets')
              /\ embedding_unchanged(opinions, opinions')]_vars

C26_Witness ==
    /\ ingest.op = "process_opinion"
    /\ ingest.row = 1
    /\ ~ingest.created
    /\ ingest.embedding = None
    /\ opinions[1].embedding = 2
    /\ opinions[1].plain_text # << >>
    /\ 1 \in DOMAIN judges /\ judges[1].embedding = 1
    /\ Len(dockets) = 1 /\ dockets[1].embedding = 2

-----------------------------------------------------------------------------
(* Properties of the judge-docket relations, checked under SpecRelation *)

IsProcessRelation == ingest.op = "process_judge_docket_relation"

\* C27: process_judge_docket_relation is get-or-create on (judge, docket,
\* role): a call for a stored triple creates no second row and leaves the
\* stored outcome as it is whatever outcome is passed, so every triple has at
\* most one relation, whose outcome is the one of the first ingestion.
C27_RelationGetOrCreate ==
    /\ [](\A r \in relations : triple_rows(relations, r.judge, r.docket, r.role) = {r})
    /\ [][ingest'.op = "process_judge_docket_relation" =>
            LET found == triple_rows(relations, ingest'.judge, ingest'.docket, ingest'.role)
            IN  IF found # {}
                THEN /\ relations' = relations
                     /\ ~ingest'.created
                     /\ ingest'.row[1] \in found
                ELSE /\ ingest'.created
                     /\ ingest'.row[1].outcome = ingest'.outcome
                     /\ relations' = relations \cup {ingest'.row[1]}]_vars

C27_Witness ==
    /\ IsProcessRelation
    /\ ~ingest.created
    /\ ingest.outcome = Denied
    /\ ingest.row[1].outcome = Granted
    /\ ingest.row[1] \in relations
    /\ Cardinality(relations) = 2

-----------------------------------------------------------------------------
(* Properties of the ingestion into empty tables, checked under SpecIntegrity *)

\* every stored row refers to stored rows
referential_integrity ==
    /\ \A o \in DOMAIN opinions : opinions[o].cluster \in DOMAIN clusters
    /\ \A c \in DOMAIN clusters : clusters[c].docket \in DOMAIN dockets
    /\ \A d \in DOMAIN dockets : dockets[d].court \in DOMAIN courts
    /\ \A e \in citations : e.citing \in DOMAIN opinions /\ e.cited \in DOMAIN opinions

\* the reference is a URL or an id of a record with this id
refers_to(ref, ids) == ref.kind \in {"url", "id"} /\ ref.id \in ids

\* The step is a call whose parent record cannot be resolved: no parent is
\* passed and the payload names none, names one that is not stored (and, for
\* a court, is not fetched either), or names it by a text that is no URL
parent_unresolved ==
    \/ /\ ingest'.op = "process_docket"
       /\ ingest'.court = None
       /\ \/ Len(ingest'.data.court) < 2
          \/ /\ court_rows(courts, ingest'.data.court[Len(ingest'.data.court) - 1]) = {}
             /\ courts' = courts
    \/ /\ ingest'.op = "process_opinion_cluster"
       /\ ingest'.given = None
       /\ ~refers_to(ingest'.reference, {dockets[d].docket_id : d \in DOMAIN dockets})
    \/ /\ ingest'.op = "process_opinion"
       /\ ingest'.given = None
       /\ IF ingest'.given_id # None THEN ingest'.given_id \notin DOMAIN clusters
          ELSE ~refers_to(ingest'.reference, DOMAIN clusters)
    \/ /\ ingest'.op = "process_citation"
       /\ ingest'.citing \notin DOMAIN opinions \/ ingest'.cited \notin DOMAIN opinions

\* the call of the step returned None
returned_none ==
    /\ ~ingest'.raised
    /\ IF ingest'.op = "process_citation" THEN ingest'.row = << >>
       ELSE ingest'.row = None

\* C28: after any sequence of ingestion operations every stored Opinion
\* refers to a stored OpinionCluster, every OpinionCluster to a stored Docket,
\* every Docket to a stored Court and every citation to two stored Opinions:
\* process_docket, process_opinion_cluster, process_opinion and
\* process_citation store nothing and return None when the parent record
\* they refer to cannot be resolved.
C28_ReferentialIntegrity ==
    /\ []referential_integrity
    /\ [][parent_unresolved => returned_none /\ UNCHANGED storeVars]_vars

\* The part of C28 that the code keeps: the references of the stored rows,
\* and a call whose parent record cannot be resolved stores nothing, whether
\* it returns None or raises
C28_StoredRowsReferToStoredRows ==
    /\ []referential_integrity
    /\ [][parent_unresolved =>
            /\ UNCHANGED storeVars
            /\ returned_none \/ ingest'.raised]_vars

-----------------------------------------------------------------------------
(* Properties of the deep fetch of a judge, checked under SpecJudgeComplete *)

IsJudgeComplete == ingest.op = "ingest_judge_complete"

\* opinion k of the last call is stored with its cluster, its docket and the
\* relation of the judge to that docket
opinion_ingested(k) ==
    /\ k \in DOMAIN opinions
    /\ opinions[k].cluster = k
    /\ k \in DOMAIN clusters
    /\ \E r \in relations :
          /\ r.judge = ingest.row
          /\ r.role = "author"
          /\ r.docket = clusters[k].docket
          /\ dockets[r.docket].docket_id = k

\* C29: in ingest_judge_complete a failure while handling one opinion is
\* caught and does not stop the run: every later opinion of the judge is
\* still processed, the judge saved before the loop is kept, and the function
\* returns the judge.
C29_OpinionFailureIsolated ==
    (IsJudgeComplete /\ ~ingest.raised) =>
        /\ ingest.row = ingest.id
        /\ ingest.row \in DOMAIN judges
        /\ Len(ingest.handled) = Len(ingest.feed)
        /\ \A k \in DOMAIN ingest.feed :
              ingest.feed[k] = feed_item("good", k) =>
                  ingest.handled[k] = "stored" /\ opinion_ingested(k)

C29_Witness ==
    /\ IsJudgeComplete
    /\ ~ingest.raised
    /\ ingest.handled = <<"failed", "stored">>
    /\ ingest.feed[1] = feed_item("cluster_error", 1)
    /\ opinion_ingested(2)
    /\ 1 \notin DOMAIN opinions
    /\ ingest.row = 1 /\ 1 \in DOMAIN judges

-----------------------------------------------------------------------------
(* The confidence level of predict_outcome, checked under SpecAnalytics *)

\* The number of relations of the judge to dockets of the case type that
\* have an outcome
sample_size(judge_id, case_type) ==
    Cardinality(exclude_blank_outcome(
        filter_nature_of_suit(docket_relations(judge_id), case_type)))

confidence_rank(level) ==
    CASE level = "Low Confidence" -> 0
      [] level = "Medium Confidence" -> 1
      [] level = "High Confidence" -> 2
      [] OTHER -> 3

\* C30: the confidence level returned by predict_outcome is determined by the
\* number of the judge's matching relations with an outcome and is monotone
\* in it: Low at or below a lower threshold and High above an upper
\* threshold, so that a sufficiently large sample (here the largest one of
\* the stores, MaxRelations) yields High.
C30_ConfidenceRisesToHigh ==
    (analytics.op = "predict_outcome" /\ analytics.result # << >>) =>
        LET n == sample_size(analytics.judge, analytics.case_type)
            level == analytics.result[1].confidence_level
        IN  /\ confidence_rank(level) <= 2
            /\ \A j \in DOMAIN judges, ct \in CaseTypes :
                  sample_size(j, ct) <= n =>
                      confidence_rank(predict_outcome(j, ct)[1].confidence_level)
                          <= confidence_rank(level)
            /\ \E low \in 0..(MaxRelations - 1), high \in 0..(MaxRelations - 1) :
                  /\ low <= high
                  /\ n <= low => level = "Low Confidence"
                  /\ n > high => level = "High Confidence"

\* What the code does instead: Low up to MEDIUM_CONFIDENCE_ABOVE relations,
\* Medium above, and never High
C30_ConfidenceLowOrMedium ==
    (analytics.op = "predict_outcome" /\ analytics.result # << >>) =>
        analytics.result[1].confidence_level =
            IF sample_size(analytics.judge, analytics.case_type) > MEDIUM_CONFIDENCE_ABOVE
            THEN "Medium Confidence" ELSE "Low Confidence"

====
